---- MODULE Spec2Model ----
(***************************************************************************)
(* Trust and verification scoring of fraud reports.                        *)
(*                                                                         *)
(* The model follows the server code: the FraudReport and User mongoose    *)
(* models (calculateTrustScore, updateTrustScore) and the two handlers     *)
(* POST /api/fraud/report and POST /api/fraud/reports/:id/verify.          *)
(*                                                                         *)
(* Both handlers are split at their awaits.  Three specifications follow   *)
(* the votes:                                                              *)
(*   Spec       sequential requests: a request starts when no other is in  *)
(*              progress, the votes are valid and the database answers;    *)
(*   SpecConc   submissions and verify requests interleave at their        *)
(*              awaits (findById, populate, report.save, User.findById,    *)
(*              user.save), with the answers 400, 404 and 500 and the      *)
(*              report_verified broadcast;                                 *)
(*   SpecScore  calculateTrustScore alone, applied to in-memory reports    *)
(*              whose entries and populated voters are drawn from bounded  *)
(*              sets.                                                      *)
(*                                                                         *)
(* Three more follow the alert dispatch of NotificationService and the     *)
(* Alert model (shouldSendViaChannel):                                     *)
(*   SpecDispatch  POST /api/fraud/report with the createProximityAlerts   *)
(*                 call it starts, down to the channel senders;            *)
(*   SpecService   the service's createProximityAlerts and                 *)
(*                 createMatchAlerts called on a stored report, each call  *)
(*                 to the database free to be rejected;                    *)
(*   SpecChannel   sendAlertNotifications alone, called once or more on    *)
(*                 one stored alert drawn from bounded sets, its final     *)
(*                 save free to be rejected.                               *)
(* Spec and SpecConc follow the votes and leave the alerts aside; the      *)
(* user documents change in SpecUsers only.                                *)
(*                                                                         *)
(* Four more follow a report from its submission to its recipients:        *)
(*   SpecBatch   createProximityAlerts for several recipients at once;     *)
(*   SpecSubmit  POST /api/fraud/report one await after another, with      *)
(*               the dispatch it starts, the data-layer failures of that   *)
(*               dispatch and of the save of the analysis;                 *)
(*   SpecLive    the Socket.IO rooms of index.js and the new_fraud_report  *)
(*               and new_alert emissions of a submitted report;            *)
(*   SpecInbox   the recipient's alert routes (read, read-all, delete)     *)
(*               beside the dispatch of the alerts.                        *)
(*                                                                         *)
(* The rest follow single parts of the server and of the client:           *)
(*   SpecClassify  the classification of a submitted report                *)
(*                 (AIService.analyzeFraudReport);                         *)
(*   SpecFailing   SpecSubmit with the failure of the first save and of    *)
(*                 the reporter's statistics update, under weak fairness;  *)
(*   SpecRooms     clients joining and leaving location rooms around the   *)
(*                 new_fraud_report emission;                              *)
(*   SpecRoutes    the alerts router, every request matched against its    *)
(*                 routes in registration order, the handlers split at     *)
(*                 their awaits, the requests that wait kept in a bag;     *)
(*   SpecUsers     the users router (PUT /preferences, PUT /device,        *)
(*                 DELETE /account) on the user documents, beside a        *)
(*                 createProximityAlerts call that has the documents it    *)
(*                 found;                                                  *)
(*   SpecGeocode   reverseGeocode of the client's LocationContext;         *)
(*   SpecNotify    the notification list of the client's SocketContext;    *)
(*   SpecAuth      the auth state of the client's AuthContext, its         *)
(*                 functions split at their awaits, and the socket the     *)
(*                 SocketContext makes and disconnects with it.            *)
(***************************************************************************)
EXTENDS Integers, Sequences, FiniteSets, Bags, TLC

\* ------------------------------------------------------------------ bounds

NumUsers == 2
NumReports == 2
\* Verify requests that may be in flight at once (SpecConc).
NumReqs == 2
\* Requests (submissions and votes) started in one behaviour.
MaxOps == 4
\* Verification entries of an input report, and calls made on it (SpecScore).
MaxEntries == 3
MaxCalls == 2

Users == 1..NumUsers
ReportIds == 1..NumReports
Reqs == 1..NumReqs

\* body('vote').isIn(['confirm', 'deny', 'uncertain'])
Votes == {"confirm", "deny", "uncertain"}
\* body('comment').optional(): absent ("undefined") or a string.
NoComment == "undefined"
Comments == {NoComment, "seen it too"}

\* Populated voters of SpecScore's input reports: no user record (populate
\* leaves null), or a record with one of these trust scores (User.trustScore
\* is a Number in 0..100).
TrustInputs == {0, 40, 60, 80, 100}

VARIABLES
  users,     \* the users collection: id -> [trustScore, reportCount, verificationCount, reputation]
  reports,   \* the fraudreports collection: id -> [exists, reportedBy, version, verification]
  reqs,      \* verify requests in flight (SpecConc): slot -> the handler's position and locals
  latest,    \* history: per report and voter, the last two votes answered with success, and how many (0, 1, 2 or more)
  ops,       \* requests started so far
  doc,       \* SpecScore: the in-memory report's verification sub-document
  results,   \* SpecScore: <<trustScore, status>> after each calculateTrustScore call on doc
  accounts,  \* the users collection, the fields the alert dispatch reads: id -> [isActive, phone, email, location, fcmToken, preferences]
  content,   \* the fraudreports collection, the fields the alert dispatch reads: id -> [fraudType, priority, location, evidenceData]
  alerts,    \* the Alert documents in creation order, each with its stored channel state and the state of the call working on it
  passes,    \* per report: how far its createProximityAlerts calls are, and how many were made
  matcher,   \* the createMatchAlerts call in progress: its position and the alerts it still has to create
  submit,    \* the POST /report request in flight (SpecSubmit, SpecLive): the handler's position and locals
  sockets,   \* the sockets: socket -> [connected, client, rooms, received, left]
  clock,     \* the time, in days: what Date.now() reads
  response,  \* the latest response of the alerts and users routers: [handler, method, path, userId, status, data]
  notifications, \* the client application's notification list (SocketContext), newest first
  auth,      \* the client application's auth state (AuthContext) and its requests in flight
  geocode,   \* the client application's reverseGeocode call (LocationContext): position, inputs, result
  inflight   \* the requests of the alerts and users routers that wait for the database

alertVars == <<accounts, content, alerts, passes, matcher>>

liveVars == <<submit, sockets, clock>>

uiVars == <<response, notifications, auth, geocode, inflight>>

vars == <<users, reports, reqs, latest, ops, doc, results, accounts, content, alerts, passes, matcher,
          submit, sockets, clock, response, notifications, auth, geocode, inflight>>

\* ------------------------------------------------- accounts and alerts

\* Reports submitted and followed through their dispatch (SpecDispatch).
MaxSubmissions == 1
\* Calls of createProximityAlerts and createMatchAlerts made on the stored
\* report of SpecService.
MaxServiceCalls == 2
\* Alert documents created in one behaviour.
MaxAlerts == 3
\* sendAlertNotifications calls on the alert of SpecChannel.
MaxPasses == 2

Channels == {"push", "email", "sms"}
\* alertSchema.severity and fraudReportSchema.priority: the same enum.
Severities == {"low", "medium", "high", "critical"}

\* A String path with no value.
Undefined == "undefined"

\* Registered identifiers: userSchema.email is required and unique,
\* userSchema.phone is unique where present.
EmailOf(u) == <<"ann@mail.io", "bob@mail.io", "cat@mail.io", "dan@mail.io">>[u]
PhoneOf(u) == <<"+15551234567", "+15551234568", "+15551234569", "+15551234560">>[u]

\* Locations are GeoJSON points [longitude, 0] on the equator, the
\* longitude kept in thousandths of a degree: [0, 0] is the default of
\* userSchema.location.coordinates.
UserLongitude == 0
ReportLongitudes == {0, 50, 150}

\* calculateDistance (haversine, R = 6371): between two points of the
\* equator it is R * |lon1 - lon2| * PI / 180 km, 111.195 m for a thousandth
\* of a degree.  The model keeps distances and radii in metres.
MetresPerMilliDegree == 111195
calculateDistance(coords1, coords2) ==
  LET dLon == IF coords1 < coords2 THEN coords2 - coords1 ELSE coords1 - coords2
  IN (dLon * MetresPerMilliDegree + 500) \div 1000

\* The default of userSchema.preferences.alertRadius, in km.
DefaultAlertRadius == 10
\* const alertRadius = 10 of createProximityAlerts, in km.
ProximityRadius == 10
\* body('alertRadius').optional().isFloat({ min: 1, max: 100 })
MinAlertRadius == 1
MaxAlertRadius == 100
Km(n) == n * 1000

\* userSchema defaults for a user with a phone, registered at time 0.
NewAccount(u) ==
  [isActive |-> TRUE, phone |-> PhoneOf(u), email |-> EmailOf(u),
   location |-> UserLongitude,
   deviceInfo |-> [fcmToken |-> Undefined, platform |-> Undefined, lastSeen |-> 0],
   preferences |->
     [notifications |-> [email |-> TRUE, sms |-> FALSE, push |-> TRUE],
      alertRadius |-> Km(DefaultAlertRadius),
      fraudTypes |-> {}]]

\* The fields of a report the dispatch reads, before the report exists.
NoContent ==
  [fraudType |-> "other", priority |-> "medium", location |-> 0,
   evidenceData |-> [phoneNumber |-> Undefined, email |-> Undefined, website |-> Undefined],
   aiAnalysis |-> [riskScore |-> 0, keywords |-> {}]]

\* No createProximityAlerts call on the report yet.  `analysis` tells how
\* the handler's analyzeFraudReport call ended ("none", "ok", "defaults"),
\* `emitted` what became of its new_fraud_report emission, `status` the
\* response of the submission (0: none yet).
NoPass ==
  [proximity |-> "none", calls |-> 0, analysis |-> "none", emitted |-> "none", status |-> 0]

\* No createMatchAlerts call in progress.
\* `queue` holds the (user, alertType, user document) triples of the alerts
\* the loops have yet to create, `current` the alert the loop is waiting on, `first` the
\* position of the first alert of the latest call, `fraudReport` its report
\* (0 before the first call); `calls` counts the calls SpecService has made
\* of createProximityAlerts and createMatchAlerts.
IdleMatcher ==
  [pc |-> "idle", fraudReport |-> 0, queue |-> <<>>, current |-> 0,
   first |-> 1, calls |-> 0]

\* The alert side of a state in which no report was dispatched.
NoDispatch ==
  /\ accounts = [u \in Users |-> NewAccount(u)]
  /\ content = [r \in ReportIds |-> NoContent]
  /\ alerts = <<>>
  /\ passes = [r \in ReportIds |-> NoPass]
  /\ matcher = IdleMatcher

\* ------------------------------------------------------------------ User

Min(a, b) == IF a < b THEN a ELSE b

\* userSchema defaults.
NewUser ==
  [trustScore |-> 50, reportCount |-> 0, verificationCount |-> 0, reputation |-> "new"]

Reputation(trustScore) ==
  IF trustScore >= 90 THEN "expert"
  ELSE IF trustScore >= 75 THEN "verified"
  ELSE IF trustScore >= 60 THEN "trusted"
  ELSE "new"

updateTrustScore(user) ==
  LET baseScore == 50
      reportBonus == Min(user.reportCount * 2, 30)
      verificationBonus == Min(user.verificationCount * 3, 40)
      trustScore == Min(baseScore + reportBonus + verificationBonus, 100)
  IN [user EXCEPT !.trustScore = trustScore, !.reputation = Reputation(trustScore)]

\* ----------------------------------------------------------- FraudReport

\* fraudReportSchema.verification defaults.
NewVerification ==
  [trustScore |-> 0, verificationCount |-> 0, verifiedBy |-> <<>>, status |-> "pending"]

NoReport ==
  [exists |-> FALSE, reportedBy |-> 0, version |-> 0, verification |-> NewVerification]

\* `verification.user && verification.user.trustScore`: the populated voter
\* is not null and its trustScore is truthy (not 0).
Resolvable(verification) ==
  verification.user.found /\ verification.user.trustScore # 0

\* The forEach of calculateTrustScore: the sum, over the resolvable entries
\* whose vote is in `votes`, of weight = trustScore / 100.  The model keeps
\* the weights in hundredths (the trustScore itself).
RECURSIVE WeightSum(_, _)
WeightSum(verifiedBy, votes) ==
  IF verifiedBy = <<>> THEN 0
  ELSE (IF Resolvable(Head(verifiedBy)) /\ Head(verifiedBy).vote \in votes
          THEN Head(verifiedBy).user.trustScore ELSE 0)
       + WeightSum(Tail(verifiedBy), votes)

\* verifiedBy.filter(v => v.vote === vote).length
CountVotes(verifiedBy, vote) ==
  Cardinality({i \in DOMAIN verifiedBy : verifiedBy[i].vote = vote})

\* Math.round(x) for x = num / den >= 0: the nearest integer, halves up.
MathRound(num, den) == (2 * num + den) \div (2 * den)

\* Math.round((weightedConfirm / totalWeight) * 100) is evaluated in IEEE-754
\* doubles.  Off an exact x.5 the double and the exact quotient round alike
\* (the quotient is at least 1/(2*totalWeight) away from x.5).  On an exact
\* x.5 the double may land below it: with weights 0.6 and 1.6,
\* (0.6 / 1.6) * 100 is 37.49999999999999 and rounds to 37.  These are the
\* (weightedConfirm, totalWeight) pairs, in hundredths, whose double lands
\* below the half, among the ties that reports of up to three entries with
\* voters in TrustInputs produce; the stored reports of Spec and SpecConc
\* produce no tie.
DoubleBelowHalf == {<<60, 160>>}

\* Mutation: the division by totalWeight is left out.
WeightedScoreNotNormalised(weightedConfirm, totalWeight) == weightedConfirm

WeightedScore(weightedConfirm, totalWeight) ==
  IF <<weightedConfirm, totalWeight>> \in DoubleBelowHalf
    THEN (100 * weightedConfirm) \div totalWeight
    ELSE MathRound(100 * weightedConfirm, totalWeight)

\* Mutation: Math.round(confirmVotes / totalVotes) * 100.
FallbackScoreRoundsFirst(confirmVotes, totalVotes) ==
  MathRound(confirmVotes, totalVotes) * 100

\* Math.round((confirmVotes / totalVotes) * 100); for totalVotes < 40 the
\* double rounds as the exact quotient does.
FallbackScore(confirmVotes, totalVotes) ==
  MathRound(100 * confirmVotes, totalVotes)

VerificationStatus(trustScore) ==
  IF trustScore >= 80 THEN "verified"
  ELSE IF trustScore <= 20 THEN "disputed"
  ELSE "pending"

\* The trust score of a report with verificationCount # 0.
VotedTrustScore(verification) ==
  LET confirmVotes == CountVotes(verification.verifiedBy, "confirm")
      totalVotes == verification.verificationCount
      weightedConfirm == WeightSum(verification.verifiedBy, {"confirm"})
      totalWeight == WeightSum(verification.verifiedBy, Votes)
  IN IF totalWeight > 0
       THEN WeightedScore(weightedConfirm, totalWeight)
       ELSE FallbackScore(confirmVotes, totalVotes)

\* calculateTrustScore on a report whose verifiedBy.user is populated.
calculateTrustScore(verification) ==
  IF verification.verificationCount = 0
    THEN [verification EXCEPT !.trustScore = 30]
    ELSE LET trustScore == VotedTrustScore(verification)
         IN [verification EXCEPT !.trustScore = trustScore,
                                 !.status = VerificationStatus(trustScore)]

\* --------------------------------------- POST /api/fraud/reports/:id/verify

\* Mutation: the find compares the ObjectIds themselves and never matches.
FindNeverMatches(verifiedBy, userId) == 0

\* report.verification.verifiedBy.find(v => v.user.toString() === userId.toString()):
\* the index of the first entry of the voter, 0 when there is none.
ExistingVerification(verifiedBy, userId) ==
  LET hits == {i \in DOMAIN verifiedBy : verifiedBy[i].user = userId}
  IN IF hits = {} THEN 0 ELSE CHOOSE i \in hits : \A j \in hits : i <= j

\* Mutation: verificationCount is incremented on the update path too.
CastVoteCountsRepeat(verification, userId, vote, comment) ==
  LET existingVerification == ExistingVerification(verification.verifiedBy, userId)
  IN IF existingVerification # 0
       THEN [verification EXCEPT
               !.verifiedBy[existingVerification].vote = vote,
               !.verifiedBy[existingVerification].comment = comment,
               !.verificationCount = @ + 1]
       ELSE [verification EXCEPT
               !.verifiedBy = Append(@, [user |-> userId, vote |-> vote, comment |-> comment]),
               !.verificationCount = @ + 1]

\* Update the existing verification, or push a new one and count it.
CastVote(verification, userId, vote, comment) ==
  LET existingVerification == ExistingVerification(verification.verifiedBy, userId)
  IN IF existingVerification # 0
       THEN [verification EXCEPT
               !.verifiedBy[existingVerification].vote = vote,
               !.verifiedBy[existingVerification].comment = comment]
       ELSE [verification EXCEPT
               !.verifiedBy = Append(@, [user |-> userId, vote |-> vote, comment |-> comment]),
               !.verificationCount = @ + 1]

\* report.populate('verification.verifiedBy.user', 'trustScore'): each voter
\* id replaced by the user document as stored when the query runs.
populate(verification, userTable) ==
  [verification EXCEPT
     !.verifiedBy = [i \in DOMAIN @ |->
        [user |-> [id |-> @[i].user, found |-> @[i].user \in DOMAIN userTable,
                   trustScore |-> IF @[i].user \in DOMAIN userTable
                                    THEN userTable[@[i].user].trustScore ELSE 0],
         vote |-> @[i].vote,
         comment |-> @[i].comment]]]

\* populate, then calculateTrustScore: the handler's document with the new
\* trustScore and status (its voters written back as ids, as save() does).
Recalculate(verification, userTable) ==
  LET scored == calculateTrustScore(populate(verification, userTable))
  IN [verification EXCEPT !.trustScore = scored.trustScore, !.status = scored.status]

\* A verify request between two requests; `status` is the answer of the
\* last one (0: none yet).
IdleReq ==
  [pc |-> "idle", status |-> 0, userId |-> 0, reportId |-> 0, vote |-> "confirm",
   comment |-> NoComment,
   existingVerification |-> 0, version |-> 0,
   loaded |-> NewVerification, report |-> NewVerification,
   loadedUser |-> NewUser, user |-> NewUser]

\* FraudReport.findById resolved, and the code up to `await report.populate`.
Found(stored, userId, reportId, vote, comment) ==
  [IdleReq EXCEPT
     !.pc = "populate", !.userId = userId, !.reportId = reportId,
     !.vote = vote, !.comment = comment,
     !.existingVerification = ExistingVerification(stored.verification.verifiedBy, userId),
     !.version = stored.version,
     !.loaded = stored.verification,
     !.report = CastVote(stored.verification, userId, vote, comment)]

\* populate resolved, calculateTrustScore ran, report.save() is on its way.
Populated(req, userTable) ==
  [req EXCEPT !.pc = "saveReport", !.report = Recalculate(req.report, userTable)]

\* report.save() sends the paths the handler changed, not the document:
\* a pushed entry as $push (which also increments __v), a changed scalar or
\* a changed field of an existing entry as $set.  A $set below an array
\* index makes the update conditional on the __v that was loaded.
VersionConflict(stored, req) ==
  req.existingVerification # 0 /\ stored.version # req.version

SavedReport(stored, req) ==
  LET old == req.loaded
      new == req.report
      cur == stored.verification
      i == req.existingVerification
  IN [stored EXCEPT
        !.version = IF i = 0 THEN @ + 1 ELSE @,
        !.verification =
          [trustScore |-> IF new.trustScore # old.trustScore
                            THEN new.trustScore ELSE cur.trustScore,
           status |-> IF new.status # old.status THEN new.status ELSE cur.status,
           verificationCount |-> IF new.verificationCount # old.verificationCount
                                   THEN new.verificationCount ELSE cur.verificationCount,
           verifiedBy |->
             IF i = 0 THEN Append(cur.verifiedBy, new.verifiedBy[Len(new.verifiedBy)])
             ELSE [cur.verifiedBy EXCEPT
                     ![i].vote = IF new.verifiedBy[i].vote # old.verifiedBy[i].vote
                                   THEN new.verifiedBy[i].vote ELSE @,
                     ![i].comment = IF new.verifiedBy[i].comment # old.verifiedBy[i].comment
                                      THEN new.verifiedBy[i].comment ELSE @]]]

\* User.findById resolved; a first vote counts for the voter.
FoundUser(req, stored) ==
  [req EXCEPT
     !.pc = IF req.existingVerification = 0 THEN "saveUser" ELSE "idle",
     !.loadedUser = stored,
     !.user = IF req.existingVerification = 0
                THEN updateTrustScore([stored EXCEPT !.verificationCount = @ + 1])
                ELSE stored]

\* user.save(): the changed paths are $set, the others keep what is stored.
SavedUser(stored, old, new) ==
  [trustScore |-> IF new.trustScore # old.trustScore THEN new.trustScore ELSE stored.trustScore,
   reportCount |-> IF new.reportCount # old.reportCount
                     THEN new.reportCount ELSE stored.reportCount,
   verificationCount |-> IF new.verificationCount # old.verificationCount
                           THEN new.verificationCount ELSE stored.verificationCount,
   reputation |-> IF new.reputation # old.reputation THEN new.reputation ELSE stored.reputation]

\* res.status(status).json(...): the request is over.
Completed(status) == [IdleReq EXCEPT !.status = status]

\* The success response of a vote, recorded per report and voter.
Answered(history, req) ==
  [history EXCEPT ![req.reportId][req.userId] =
     [n |-> Min(@.n + 1, 2), vote |-> req.vote, comment |-> req.comment,
      prevVote |-> @.vote, prevComment |-> @.comment]]

\* ----------------------------------------------------------- live updates

\* Sockets connected to the server.
NumSockets == 2
Sockets == 1..NumSockets

\* `user_${userId}`
UserRoom(userId) == <<"user", userId>>

\* Math.floor of a coordinate kept in thousandths of a degree.
Floor(milli) == milli \div 1000

\* `location_${Math.floor(lat)}_${Math.floor(lng)}`
LocationRoom(lat, lng) == <<"location", Floor(lat), Floor(lng)>>

\* No socket is connected.  `client` is the user the client application is
\* signed in as (0: none) and `left` the rooms whose coordinates the client
\* has sent with leave_location_room; the server reads neither.
NoSockets ==
  [s \in Sockets |->
     [connected |-> FALSE, client |-> 0, rooms |-> {}, received |-> {}, left |-> {}]]

\* The user a socket's client application is signed in as.
ClientOf(s) == ((s - 1) % NumUsers) + 1

\* io.on('connection'): the socket is connected and in no room.
Connected(socket, userId) == [socket EXCEPT !.connected = TRUE, !.client = userId]

\* socket.join(room)
Joined(socket, room) == [socket EXCEPT !.rooms = @ \cup {room}]

\* The sockets of a room.
Members(socks, room) == {s \in Sockets : room \in socks[s].rooms}

\* io.to(room).emit(event, payload): every socket of the room receives the
\* event, or the delivery is lost; emit returns nothing either way.
Emitted(socks, room, event, lost) ==
  [s \in Sockets |->
     IF s \in Members(socks, room) /\ ~lost
       THEN [socks[s] EXCEPT !.received = @ \cup {event}]
       ELSE socks[s]]

\* What became of an emission: nobody in the room, lost, or delivered.
Emission(socks, room, lost) ==
  IF Members(socks, room) = {} THEN "unheard"
  ELSE IF lost THEN "lost"
  ELSE "delivered"

\* The events, by name and by the id of their payload.
NewFraudReport(fraudReport) == [event |-> "new_fraud_report", id |-> fraudReport]
NewAlertEvent(alert) == [event |-> "new_alert", id |-> alert]

\* io.emit(event, payload): every connected socket receives the event, or
\* the delivery is lost.
Broadcast(socks, event, lost) ==
  [s \in Sockets |->
     IF socks[s].connected /\ ~lost
       THEN [socks[s] EXCEPT !.received = @ \cup {event}]
       ELSE socks[s]]

\* The payload of report_verified: {reportId, trustScore, verificationCount}
\* of the handler's document.
ReportVerified(reportId, verification) ==
  [event |-> "report_verified", id |-> reportId,
   trustScore |-> verification.trustScore,
   verificationCount |-> verification.verificationCount]

\* No POST /report request in flight; `status` is the answer of the last
\* one (0: none yet).
IdleSubmit ==
  [pc |-> "idle", status |-> 0, userId |-> 0, fraudReport |-> 0, document |-> NoContent,
   aiAnalysis |-> [riskScore |-> 0, keywords |-> {}],
   loadedUser |-> NewUser, user |-> NewUser]

\* No request in flight, no client connected, the time at its origin.
NoLive ==
  /\ submit = IdleSubmit
  /\ sockets = NoSockets
  /\ clock = 0

\* ------------------------------------ responses and the client application

\* The body of a response that carries no alert and no count.  `alerts`
\* are the alerts of the body, `list` the page of GET / in its order.
NoData ==
  [alerts |-> {}, list |-> <<>>, total |-> 0, unread |-> 0,
   bySeverity |-> [s \in Severities |-> 0],
   byType |-> [t \in {"proximity", "phone_match", "email_match"} |-> 0]]

\* No request answered by the alerts router yet.  `handler` is the route
\* whose handler answered, `method` and `path` the request it answered
\* (the path below /api/alerts, by segment), `userId` req.user._id.
NoResponse ==
  [handler |-> "none", method |-> "", path |-> <<>>, userId |-> 0, status |-> 0,
   data |-> NoData]

\* const initialState = {user: null, token, loading: true, error: null,
\* isAuthenticated: false}; null is <<>>, a value v is <<v>>.  `calls` is
\* the bag of the requests of the provider's functions that are waiting for
\* the server.
initialState(token) ==
  [user |-> <<>>, token |-> token, loading |-> TRUE, error |-> <<>>,
   isAuthenticated |-> FALSE, calls |-> EmptyBag]

\* No address: the call has returned nothing yet.
NoAddress == [text |-> "", lat |-> 0, lng |-> 0]

\* No reverseGeocode call made.  `pc` is the await the call is at, `google`
\* whether window.google.maps is loaded, `failure` what went wrong with the
\* geocoding service, `settled` how the promise of the call ended.
IdleGeocoder ==
  [pc |-> "idle", lat |-> 0, lng |-> 0, google |-> FALSE, failure |-> "none",
   settled |-> "none", address |-> NoAddress]

\* No response, an empty notification list, nobody signed in.
NoUi ==
  /\ response = NoResponse
  /\ inflight = EmptyBag
  /\ notifications = <<>>
  /\ auth = initialState(<<>>)
  /\ geocode = IdleGeocoder

\* ------------------------------------- POST /api/fraud/reports/:id/verify

NextReportId ==
  CHOOSE r \in ReportIds : ~reports[r].exists /\ \A s \in ReportIds : s < r => reports[s].exists

NoVotes ==
  [r \in ReportIds |-> [u \in Users |->
     [n |-> 0, vote |-> "confirm", comment |-> NoComment,
      prevVote |-> "confirm", prevComment |-> NoComment]]]

\* No request is waiting.
AllIdle == \A q \in Reqs : reqs[q].pc = "idle"

\* req.body.vote: one of the three votes, or a string isIn rejects.
VoteInputs == Votes \cup {"maybe"}

\* The handler down to its first wait after FraudReport.findById: the
\* validation (400), the lookup, which is rejected (500), finds nothing
\* (404) or finds the report, and the code up to `await report.populate`.
VerifyFind(q, userId, reportId, vote, comment, rejected) ==
  /\ ops < MaxOps
  /\ reqs[q].pc = "idle"
  /\ reqs' = [reqs EXCEPT ![q] =
                IF vote \notin Votes THEN Completed(400)
                ELSE IF rejected THEN Completed(500)
                ELSE IF ~reports[reportId].exists THEN Completed(404)
                ELSE Found(reports[reportId], userId, reportId, vote, comment)]
  /\ ops' = ops + 1
  /\ UNCHANGED <<users, reports, latest, doc, results>>
  /\ UNCHANGED alertVars
  /\ UNCHANGED liveVars
  /\ UNCHANGED uiVars

VerifyPopulate(q) ==
  /\ reqs[q].pc = "populate"
  /\ reqs' = [reqs EXCEPT ![q] = Populated(@, users)]
  /\ UNCHANGED <<users, reports, latest, ops, doc, results>>
  /\ UNCHANGED alertVars
  /\ UNCHANGED liveVars
  /\ UNCHANGED uiVars

\* report.save() reaches the database; a VersionError ends the request in
\* the handler's catch (500).
VerifySaveReport(q) ==
  /\ reqs[q].pc = "saveReport"
  /\ \/ /\ VersionConflict(reports[reqs[q].reportId], reqs[q])
        /\ reqs' = [reqs EXCEPT ![q] = Completed(500)]
        /\ UNCHANGED reports
     \/ /\ ~VersionConflict(reports[reqs[q].reportId], reqs[q])
        /\ reports' = [reports EXCEPT ![reqs[q].reportId] = SavedReport(@, reqs[q])]
        /\ reqs' = [reqs EXCEPT ![q].pc = "findUser"]
  /\ UNCHANGED <<users, latest, ops, doc, results>>
  /\ UNCHANGED alertVars
  /\ UNCHANGED liveVars
  /\ UNCHANGED uiVars

\* User.findById resolved.  A repeat vote goes straight to the broadcast of
\* report_verified and the response; a first vote counts for the voter and
\* user.save() is called.
VerifyFindUser(q) ==
  /\ reqs[q].pc = "findUser"
  /\ LET foundUser == FoundUser(reqs[q], users[reqs[q].userId])
     IN IF foundUser.pc = "idle"
          THEN /\ reqs' = [reqs EXCEPT ![q] = Completed(200)]
               /\ latest' = Answered(latest, reqs[q])
               /\ \E lost \in BOOLEAN :
                    sockets' = Broadcast(sockets,
                                         ReportVerified(reqs[q].reportId, reqs[q].report),
                                         lost)
          ELSE /\ reqs' = [reqs EXCEPT ![q] = foundUser]
               /\ UNCHANGED <<latest, sockets>>
  /\ UNCHANGED <<users, reports, ops, doc, results>>
  /\ UNCHANGED alertVars
  /\ UNCHANGED <<submit, clock>>
  /\ UNCHANGED uiVars

\* user.save() reaches the database, then the broadcast of report_verified
\* and the response.
VerifySaveUser(q) ==
  /\ reqs[q].pc = "saveUser"
  /\ users' = [users EXCEPT ![reqs[q].userId] = SavedUser(@, reqs[q].loadedUser, reqs[q].user)]
  /\ latest' = Answered(latest, reqs[q])
  /\ \E lost \in BOOLEAN :
       sockets' = Broadcast(sockets, ReportVerified(reqs[q].reportId, reqs[q].report), lost)
  /\ reqs' = [reqs EXCEPT ![q] = Completed(200)]
  /\ UNCHANGED <<reports, ops, doc, results>>
  /\ UNCHANGED alertVars
  /\ UNCHANGED <<submit, clock>>
  /\ UNCHANGED uiVars

\* An await of the handler is rejected (report.populate, report.save,
\* User.findById, user.save): its catch answers 500; what was saved before
\* stays.
VerifyFails(q) ==
  /\ reqs[q].pc \in {"populate", "saveReport", "findUser", "saveUser"}
  /\ reqs' = [reqs EXCEPT ![q] = Completed(500)]
  /\ UNCHANGED <<users, reports, latest, ops, doc, results>>
  /\ UNCHANGED alertVars
  /\ UNCHANGED liveVars
  /\ UNCHANGED uiVars

\* ------------------------------------------------- calculateTrustScore alone

PopulatedInputs ==
  {[found |-> FALSE, trustScore |-> 0]}
    \cup {[found |-> TRUE, trustScore |-> t] : t \in TrustInputs}

InputEntries == [user : PopulatedInputs, vote : Votes]

\* Reports as the handler keeps them: verificationCount counts the entries.
InputDocs ==
  {[trustScore |-> 0, verificationCount |-> Len(verifiedBy),
    verifiedBy |-> verifiedBy, status |-> "pending"] :
     verifiedBy \in UNION {[1..n -> InputEntries] : n \in 0..MaxEntries}}

InitScore ==
  /\ NoUi
  /\ users = [u \in Users |-> NewUser]
  /\ reports = [r \in ReportIds |-> NoReport]
  /\ reqs = [q \in Reqs |-> IdleReq]
  /\ latest = NoVotes
  /\ ops = 0
  /\ doc \in InputDocs
  /\ results = <<>>
  /\ NoDispatch
  /\ NoLive

Calculate ==
  /\ Len(results) < MaxCalls
  /\ doc' = calculateTrustScore(doc)
  /\ results' = Append(results, <<doc'.trustScore, doc'.status>>)
  /\ UNCHANGED <<users, reports, reqs, latest, ops>>
  /\ UNCHANGED alertVars
  /\ UNCHANGED liveVars
  /\ UNCHANGED uiVars

NextScore == Calculate

SpecScore == InitScore /\ [][NextScore]_vars

\* ------------------------------------------------------------------ Alert

\* alertSchema.channels defaults: nothing sent, no sentAt.
NotSent == [sent |-> FALSE, sentAt |-> FALSE]
\* alert.channels.X.sent = true; alert.channels.X.sentAt = new Date()
SentNow == [sent |-> TRUE, sentAt |-> TRUE]

\* The part of an alert that follows the calls made on it: how many
\* sendAlertNotifications calls, and for the latest one the channel state it
\* started from, what shouldSendViaChannel answered, the senders invoked and
\* how each settled; over all calls, the successful sends of each channel
\* and whether a sender was invoked for a channel stored as sent; `emitted`
\* tells what became of the latest new_alert emission.
NoCalls ==
  [calls |-> 0,
   before |-> [c \in Channels |-> NotSent],
   eligible |-> {},
   invoked |-> {},
   outcome |-> [c \in Channels |-> "none"],
   successes |-> [c \in Channels |-> 0],
   resent |-> FALSE,
   emitted |-> "none"]

\* expiresAt: default () => new Date(Date.now() + 7 * 24 * 60 * 60 * 1000)
RetentionDays == 7

\* new Alert({...}) followed by the call of alert.save(): readAt is <<>> as
\* long as the path has no value, <<the date>> after; `channels` is the
\* document in memory, `saved` what the collection holds once the insert has
\* resolved (pc # "saving").  `recipient` is the user document the callback
\* or the loop holds, as User.find returned it: the one it hands
\* sendAlertNotifications once the insert has resolved.
NewAlert(user, fraudReport, alertType, title, message, severity, matchCriteria) ==
  [user |-> user, recipient |-> accounts[user],
   fraudReport |-> fraudReport, alertType |-> alertType,
   title |-> title, message |-> message,
   severity |-> severity, matchCriteria |-> matchCriteria,
   isRead |-> FALSE, readAt |-> <<>>, isActive |-> TRUE,
   createdAt |-> clock, expiresAt |-> clock + RetentionDays,
   channels |-> [c \in Channels |-> NotSent],
   saved |-> [c \in Channels |-> NotSent],
   pc |-> "saving", pending |-> {}, log |-> NoCalls]

\* Mutation: the severity test is left out.
ShouldSendIgnoresSeverity(alert, channel, userPreferences) ==
  IF ~userPreferences.notifications[channel] THEN FALSE
  ELSE IF alert.channels[channel].sent THEN FALSE
  ELSE TRUE

\* alertSchema.methods.shouldSendViaChannel
shouldSendViaChannel(alert, channel, userPreferences) ==
  IF ~userPreferences.notifications[channel] THEN FALSE
  ELSE IF alert.channels[channel].sent THEN FALSE
  ELSE IF channel = "sms" /\ alert.severity = "low" THEN FALSE
  ELSE TRUE

\* ---------------------------------------------------- NotificationService

\* mapping[priority] || 'medium'
getSeverityFromPriority(priority) ==
  CASE priority = "low" -> "low"
    [] priority = "medium" -> "medium"
    [] priority = "high" -> "high"
    [] priority = "critical" -> "critical"
    [] OTHER -> "medium"

\* The three ifs of sendAlertNotifications: the channels whose sender is
\* invoked.  Push needs a device token, SMS a phone and a severity of high
\* or critical.
SendersInvoked(user, alert) ==
  {c \in Channels :
     /\ shouldSendViaChannel(alert, c, user.preferences)
     /\ (c = "push" => user.deviceInfo.fcmToken # Undefined)
     /\ (c = "sms" => user.phone # Undefined /\ alert.severity \in {"high", "critical"})}

\* sendAlertNotifications(user, alert) down to `await Promise.all`: the
\* senders are invoked and not yet settled.
Notifying(user, alert) ==
  LET invoked == SendersInvoked(user, alert)
  IN [alert EXCEPT
        !.pc = "sending",
        !.pending = invoked,
        !.log = [@ EXCEPT
                   !.calls = @ + 1,
                   !.before = alert.channels,
                   !.eligible = {c \in Channels :
                                   shouldSendViaChannel(alert, c, user.preferences)},
                   !.invoked = invoked,
                   !.outcome = [c \in Channels |-> "none"],
                   !.resent = @ \/ \E c \in invoked : alert.saved[c].sent]]

\* Mutation: a lost new_alert emission ends the call in its catch.
NotifiedUnlessLost(user, alert, emission) ==
  IF emission = "lost"
    THEN [alert EXCEPT !.pc = "idle", !.log.calls = @ + 1, !.log.emitted = emission,
                       !.log.before = alert.channels, !.log.invoked = {},
                       !.log.outcome = [c \in Channels |-> "none"]]
    ELSE [Notifying(user, alert) EXCEPT !.log.emitted = emission]

\* sendAlertNotifications from its first line: the new_alert emission, whose
\* outcome the code does not look at, then the senders.
Notified(user, alert, emission) ==
  [Notifying(user, alert) EXCEPT !.log.emitted = emission]

\* Mutation: a sender that fails ends the call in its catch, before the
\* other senders are heard and before the alert is saved.
SettledFailureAborts(alert, channel, sent) ==
  IF sent
    THEN [alert EXCEPT
            !.pending = @ \ {channel},
            !.channels[channel] = SentNow,
            !.log.outcome[channel] = "ok",
            !.log.successes[channel] = Min(@ + 1, 2)]
    ELSE [alert EXCEPT !.pending = {}, !.pc = "idle", !.log.outcome[channel] = "failed"]

\* Mutation: each sender's result is written to the collection as it settles.
SettledWritesThrough(alert, channel, sent) ==
  [alert EXCEPT
     !.pending = @ \ {channel},
     !.channels[channel] = IF sent THEN SentNow ELSE @,
     !.saved[channel] = IF sent THEN SentNow ELSE @,
     !.log.outcome[channel] = IF sent THEN "ok" ELSE "failed",
     !.log.successes[channel] = IF sent THEN Min(@ + 1, 2) ELSE @]

\* .then(sent => { if (sent) { sent = true; sentAt = new Date() } })
Settled(alert, channel, sent) ==
  [alert EXCEPT
     !.pending = @ \ {channel},
     !.channels[channel] = IF sent THEN SentNow ELSE @,
     !.log.outcome[channel] = IF sent THEN "ok" ELSE "failed",
     !.log.successes[channel] = IF sent THEN Min(@ + 1, 2) ELSE @]

\* alert.save() resolved: the collection holds the document.
Saved(alert) == [alert EXCEPT !.saved = alert.channels]

\* The insert of a new alert resolved; sendAlertNotifications starts, with
\* the user document that was found before the alert was made.
AlertSaved(a) ==
  /\ alerts[a].pc = "saving"
  /\ \E lost \in BOOLEAN :
       /\ sockets' = Emitted(sockets, UserRoom(alerts[a].user), NewAlertEvent(a), lost)
       /\ alerts' = [alerts EXCEPT ![a] =
                       Notified(@.recipient, Saved(@),
                                Emission(sockets, UserRoom(alerts[a].user), lost))]
  /\ UNCHANGED <<accounts, content, passes, matcher>>
  /\ UNCHANGED <<users, reports, reqs, latest, ops, doc, results>>
  /\ UNCHANGED <<submit, clock>>
  /\ UNCHANGED uiVars

\* A channel sender returns true or false.
SenderSettles(a, channel, sent) ==
  /\ alerts[a].pc = "sending"
  /\ channel \in alerts[a].pending
  /\ alerts' = [alerts EXCEPT ![a] = Settled(@, channel, sent)]
  /\ UNCHANGED <<accounts, content, passes, matcher>>
  /\ UNCHANGED <<users, reports, reqs, latest, ops, doc, results>>
  /\ UNCHANGED liveVars
  /\ UNCHANGED uiVars

\* Promise.all resolved, then the alert.save() that ends sendAlertNotifications.
NotificationsSaved(a) ==
  /\ alerts[a].pc = "sending"
  /\ alerts[a].pending = {}
  /\ alerts' = [alerts EXCEPT ![a] = [Saved(@) EXCEPT !.pc = "idle"]]
  /\ UNCHANGED <<accounts, content, passes, matcher>>
  /\ UNCHANGED <<users, reports, reqs, latest, ops, doc, results>>
  /\ UNCHANGED liveVars
  /\ UNCHANGED uiVars

\* ------------------------------------------------- createProximityAlerts

\* The distance from the user's location to the report's.
Distance(user, fraudReport) ==
  calculateDistance(accounts[user].location, content[fraudReport].location)

\* User.find({ location: { $near: { $geometry, $maxDistance: alertRadius *
\* 1000 } }, isActive: true, 'preferences.notifications.push': true }).
\* The database measures on a sphere of radius 6378.1 km; for the locations
\* of the model both distances fall on the same side of the 10 km.
NearbyUsers(fraudReport) ==
  {u \in DOMAIN accounts :
     /\ accounts[u].isActive
     /\ accounts[u].preferences.notifications.push
     /\ Distance(u, fraudReport) <= Km(ProximityRadius)}

\* Mutation: the reporter is not skipped.
NobodyIsReporter(user, fraudReport) == FALSE

\* user._id.toString() === fraudReport.reportedBy.toString()
IsReporter(user, fraudReport) == user = reports[fraudReport].reportedBy

\* Mutation: the fraud types of the user are not looked at.
EverybodyInterested(user, fraudReport) == FALSE

\* user.preferences.fraudTypes.length > 0 &&
\* !user.preferences.fraudTypes.includes(fraudReport.fraudType)
NotInterested(user, fraudReport) ==
  /\ accounts[user].preferences.fraudTypes # {}
  /\ content[fraudReport].fraudType \notin accounts[user].preferences.fraudTypes

\* distance > user.preferences.alertRadius
OutsideRadius(user, fraudReport) ==
  Distance(user, fraudReport) > accounts[user].preferences.alertRadius

\* The users of nearbyUsers whose callback reaches `new Alert`.
ProximityRecipients(fraudReport) ==
  {u \in NearbyUsers(fraudReport) :
     /\ ~IsReporter(u, fraudReport)
     /\ ~NotInterested(u, fraudReport)
     /\ ~OutsideRadius(u, fraudReport)}

\* fraudReport.fraudType.toUpperCase()
toUpperCase(fraudType) ==
  CASE fraudType = "phishing" -> "PHISHING"
    [] fraudType = "ponzi" -> "PONZI"
    [] fraudType = "other" -> "OTHER"

\* distance.toFixed(1): the kilometres rounded to one decimal, kept in
\* tenths of a kilometre.
toFixed1(distance) == (distance + 50) \div 100

\* The alerts the callbacks create, each with its alert.save() called.
RECURSIVE ProximityAlerts(_, _)
ProximityAlerts(recipients, fraudReport) ==
  IF recipients = {} THEN <<>>
  ELSE LET user == CHOOSE u \in recipients : \A v \in recipients : u <= v
       IN <<NewAlert(user, fraudReport, "proximity",
                     "Fraud Alert Nearby",
                     [fraudType |-> toUpperCase(content[fraudReport].fraudType),
                      km |-> toFixed1(Distance(user, fraudReport))],
                     getSeverityFromPriority(content[fraudReport].priority),
                     [location |-> [distance |-> Distance(user, fraudReport),
                                    coordinates |-> content[fraudReport].location]])>>
          \o ProximityAlerts(recipients \ {user}, fraudReport)

\* User.find resolved: nearbyUsers.map runs every callback down to its
\* `await alert.save()`.
ProximityFind(r) ==
  /\ passes[r].proximity = "find"
  /\ Len(alerts) + Cardinality(ProximityRecipients(r)) <= MaxAlerts
  /\ alerts' = alerts \o ProximityAlerts(ProximityRecipients(r), r)
  /\ passes' = [passes EXCEPT ![r].proximity = "mapped"]
  /\ UNCHANGED <<accounts, content, matcher>>
  /\ UNCHANGED <<users, reports, reqs, latest, ops, doc, results>>
  /\ UNCHANGED liveVars
  /\ UNCHANGED uiVars

\* ------------------------------------- POST /api/fraud/report, with dispatch

\* body('fraudType').isIn([...]): two of the types.
FraudTypes == {"phishing", "ponzi"}

\* req.body.impact: no loss, a loss above 10000, more than 10 affected users.
Impacts ==
  {[financialLoss |-> 0, affectedUsers |-> 0],
   [financialLoss |-> 20000, affectedUsers |-> 0],
   [financialLoss |-> 0, affectedUsers |-> 20]}

\* req.body.evidenceData: no identifier, or identifiers of the first user;
\* no website.
EvidenceInputs ==
  [phoneNumber : {Undefined, PhoneOf(1)}, email : {Undefined, EmailOf(1)},
   website : {Undefined}]

\* "Determine priority based on fraud type and impact"; 'medium' is the
\* schema default.
Priority(fraudType, impact) ==
  IF fraudType = "ponzi" \/ fraudType = "investment" THEN "high"
  ELSE IF impact.financialLoss > 10000 THEN "critical"
  ELSE IF impact.affectedUsers > 10 THEN "high"
  ELSE "medium"

\* Mutation: analyzeText without the final Math.min(riskScore, 100).
analyzeTextUncapped(text) ==
  [riskScore |-> 10 * text.indicators
                 + (IF text.sentiment = "negative" THEN 15
                    ELSE IF text.sentiment = "positive" THEN 5 ELSE 0)
                 + 8 * text.urgency,
   keywords |-> text.keywords]

\* The risk indicators (30 phrases) and the urgency words (6 words) a text
\* can contain.
NumRiskIndicators == 30
NumUrgencyWords == 6

\* AIService.analyzeText(text), for a text given by what the function looks
\* at: how many of the riskIndicators and of the urgencyWords it contains,
\* its sentiment, and the fraud keywords found in it.  Ten points per
\* indicator, fifteen for a negative and five for a positive sentiment,
\* eight per urgency word, capped at 100.
analyzeText(text) ==
  [riskScore |-> Min(10 * text.indicators
                     + (IF text.sentiment = "negative" THEN 15
                        ELSE IF text.sentiment = "positive" THEN 5 ELSE 0)
                     + 8 * text.urgency, 100),
   keywords |-> text.keywords]

\* A text with no indicator, no urgency word and no keyword, and one with
\* five indicators and five urgency words (90 points) and two keywords.
PlainFeatures ==
  [indicators |-> 0, urgency |-> 0, sentiment |-> "neutral", keywords |-> {}]
AlarmingFeatures ==
  [indicators |-> 5, urgency |-> 5, sentiment |-> "neutral",
   keywords |-> {"urgent", "verify"}]

\* What analyzeText returns for the report's text.
PlainText == analyzeText(PlainFeatures)
TextAnalyses == {PlainText, analyzeText(AlarmingFeatures)}

\* analyzeURL(url).isPhishing: two or more of the five suspiciousPatterns
\* match (20 points each, phishing from 40); without API keys in the
\* environment no external check runs.  The first website of the model
\* matches the shortener, the dash and the brand patterns, the second none.
PhishingWebsites == {"http://bit.ly/paypal-login"}
Websites == PhishingWebsites \cup {"https://example.com"}
analyzeURL(url) == [isPhishing |-> url \in PhishingWebsites]

\* analyzePhoneNumber(phoneNumber).suspicious: a number matching one of the
\* scamPatterns (here the prefix +234) or shorter than 7 or longer than 15
\* characters.  The registered phones of the model match none.
ScamNumbers == {"+2348012345678", "12345"}
analyzePhoneNumber(phoneNumber) == [suspicious |-> phoneNumber \in ScamNumbers]

\* AIService.analyzeFraudReport(report): the text analysis, then the phone
\* number and the priority adjustments; `threw` tells that the code of the
\* try block threw, and the catch returned the default analysis.
analyzeFraudReport(report, textAnalysis, threw) ==
  IF threw THEN [riskScore |-> 30, keywords |-> {}]
  ELSE LET website == report.evidenceData.website
           afterUrl ==
             IF website # Undefined /\ analyzeURL(website).isPhishing
               THEN Min(textAnalysis.riskScore + 30, 100)
               ELSE textAnalysis.riskScore
           phoneNumber == report.evidenceData.phoneNumber
           afterPhone ==
             IF phoneNumber # Undefined /\ analyzePhoneNumber(phoneNumber).suspicious
               THEN Min(afterUrl + 15, 100)
               ELSE afterUrl
           afterPriority ==
             IF report.priority = "critical" THEN Min(afterPhone + 20, 100)
             ELSE IF report.priority = "high" THEN Min(afterPhone + 10, 100)
             ELSE afterPhone
       IN [riskScore |-> afterPriority, keywords |-> textAnalysis.keywords]

\* new FraudReport({...}) with its priority; aiAnalysis has the schema
\* defaults.
NewContent(fraudType, impact, location, evidenceData) ==
  [fraudType |-> fraudType, priority |-> Priority(fraudType, impact),
   location |-> location, evidenceData |-> evidenceData,
   aiAnalysis |-> [riskScore |-> 0, keywords |-> {}]]

\* fraudReport.aiAnalysis = aiAnalysis
Analysed(report, aiAnalysis) == [report EXCEPT !.aiAnalysis = aiAnalysis]

\* req.body.fraudType: one of the schema's types, or a string isIn rejects.
FraudTypeInputs == FraudTypes \cup {"unknown"}

\* The handler of POST /report down to its first wait: the validation
\* (400), new FraudReport({...}) with its priority, and the call of
\* fraudReport.save().  `submit` holds one request: the next is taken up
\* when this one is answered.
SubmitPost(userId, fraudType, impact, location, evidenceData) ==
  /\ ops < MaxOps
  /\ submit.pc = "idle"
  /\ \E r \in ReportIds : ~reports[r].exists
  /\ submit' = IF fraudType \in FraudTypes
                 THEN [IdleSubmit EXCEPT
                         !.pc = "save", !.userId = userId, !.fraudReport = NextReportId,
                         !.document = NewContent(fraudType, impact, location, evidenceData)]
                 ELSE [IdleSubmit EXCEPT !.status = 400]
  /\ ops' = ops + 1
  /\ UNCHANGED <<users, reports, reqs, latest, doc, results>>
  /\ UNCHANGED <<accounts, content, alerts, passes, matcher, sockets, clock>>
  /\ UNCHANGED uiVars

\* await fraudReport.save(): the report is in the collection, with the
\* schema defaults for aiAnalysis.
SubmitSave ==
  /\ submit.pc = "save"
  /\ reports' = [reports EXCEPT ![submit.fraudReport] =
                   [exists |-> TRUE, reportedBy |-> submit.userId, version |-> 0,
                    verification |-> NewVerification]]
  /\ content' = [content EXCEPT ![submit.fraudReport] = submit.document]
  /\ submit' = [submit EXCEPT !.pc = "analyse"]
  /\ UNCHANGED <<users, reqs, latest, ops, doc, results>>
  /\ UNCHANGED <<accounts, alerts, passes, matcher, sockets, clock>>
  /\ UNCHANGED uiVars

\* await AIService.analyzeFraudReport(fraudReport) resolved, with what its
\* try computed or with what its catch returns; fraudReport.aiAnalysis is
\* assigned and the second fraudReport.save() is called.
SubmitAnalysed(textAnalysis, threw) ==
  /\ submit.pc = "analyse"
  /\ LET aiAnalysis == analyzeFraudReport(submit.document, textAnalysis, threw)
     IN submit' = [submit EXCEPT !.pc = "saveAnalysis",
                                 !.aiAnalysis = aiAnalysis,
                                 !.document = Analysed(@, aiAnalysis)]
  /\ passes' = [passes EXCEPT ![submit.fraudReport].analysis =
                                 IF threw THEN "defaults" ELSE "ok"]
  /\ UNCHANGED <<users, reports, reqs, latest, ops, doc, results>>
  /\ UNCHANGED <<accounts, content, alerts, matcher, sockets, clock>>
  /\ UNCHANGED uiVars

\* The second fraudReport.save() resolved; User.findById is called.
SubmitSaveAnalysis ==
  /\ submit.pc = "saveAnalysis"
  /\ content' = [content EXCEPT ![submit.fraudReport] = submit.document]
  /\ submit' = [submit EXCEPT !.pc = "findUser"]
  /\ UNCHANGED <<users, reports, reqs, latest, ops, doc, results>>
  /\ UNCHANGED <<accounts, alerts, passes, matcher, sockets, clock>>
  /\ UNCHANGED uiVars

\* User.findById resolved: reportCount += 1, updateTrustScore(), and
\* user.save() is called.
SubmitFindUser ==
  /\ submit.pc = "findUser"
  /\ submit' = [submit EXCEPT
                  !.pc = "saveUser",
                  !.loadedUser = users[submit.userId],
                  !.user = updateTrustScore([users[submit.userId] EXCEPT
                                               !.reportCount = @ + 1])]
  /\ UNCHANGED <<users, reports, reqs, latest, ops, doc, results>>
  /\ UNCHANGED <<accounts, content, alerts, passes, matcher, sockets, clock>>
  /\ UNCHANGED uiVars

\* user.save() resolved: the new_fraud_report emission, the call of
\* createProximityAlerts, which is not awaited, and the response 201.
SubmitSaveUser ==
  /\ submit.pc = "saveUser"
  /\ users' = [users EXCEPT ![submit.userId] =
                 SavedUser(@, submit.loadedUser, submit.user)]
  /\ \E lost \in BOOLEAN :
       LET roomName == LocationRoom(0, content[submit.fraudReport].location)
       IN /\ sockets' = Emitted(sockets, roomName,
                                NewFraudReport(submit.fraudReport), lost)
          /\ passes' = [passes EXCEPT ![submit.fraudReport] =
                          [@ EXCEPT !.proximity = "find", !.calls = 1,
                                    !.emitted = Emission(sockets, roomName, lost),
                                    !.status = 201]]
  /\ submit' = [IdleSubmit EXCEPT !.status = 201]
  /\ UNCHANGED <<reports, reqs, latest, ops, doc, results>>
  /\ UNCHANGED <<accounts, content, alerts, matcher, clock>>
  /\ UNCHANGED uiVars

\* The first await fraudReport.save() rejected: the catch of the handler
\* answers 500 and no report is stored.
SubmitSaveFails ==
  /\ submit.pc = "save"
  /\ submit' = [IdleSubmit EXCEPT !.status = 500]
  /\ UNCHANGED <<users, reports, reqs, latest, ops, doc, results>>
  /\ UNCHANGED <<accounts, content, alerts, passes, matcher, sockets, clock>>
  /\ UNCHANGED uiVars

\* The second await fraudReport.save() rejected: the inner catch logs 'AI
\* analysis failed' and the handler goes on; the stored report keeps the
\* schema defaults for aiAnalysis.
SubmitSaveAnalysisFails ==
  /\ submit.pc = "saveAnalysis"
  /\ submit' = [submit EXCEPT !.pc = "findUser"]
  /\ UNCHANGED <<users, reports, reqs, latest, ops, doc, results>>
  /\ UNCHANGED <<accounts, content, alerts, passes, matcher, sockets, clock>>
  /\ UNCHANGED uiVars

\* await User.findById(req.user._id) or await user.save() rejected: the
\* catch of the handler answers 500.  The emission and the call of
\* createProximityAlerts come after these awaits and are not reached; the
\* report stays stored.
SubmitStatisticsFail ==
  /\ submit.pc \in {"findUser", "saveUser"}
  /\ passes' = [passes EXCEPT ![submit.fraudReport].status = 500]
  /\ submit' = [IdleSubmit EXCEPT !.status = 500]
  /\ UNCHANGED <<users, reports, reqs, latest, ops, doc, results>>
  /\ UNCHANGED <<accounts, content, alerts, matcher, sockets, clock>>
  /\ UNCHANGED uiVars

\* ------------------------------------------- the two routes, sequential

Init ==
  /\ NoUi
  /\ users = [u \in Users |-> NewUser]
  /\ reports = [r \in ReportIds |-> NoReport]
  /\ reqs = [q \in Reqs |-> IdleReq]
  /\ latest = NoVotes
  /\ ops = 0
  /\ doc = NewVerification
  /\ results = <<>>
  /\ NoDispatch
  /\ NoLive

\* No request of the two routes is waiting.
Quiescent == AllIdle /\ submit.pc = "idle"

\* A submission at the users' location with no evidence, of a type that
\* does not raise the priority.
PlainSubmission(userId) ==
  SubmitPost(userId, "phishing", [financialLoss |-> 0, affectedUsers |-> 0], UserLongitude,
             [phoneNumber |-> Undefined, email |-> Undefined, website |-> Undefined])

\* The bodies of the votes: each vote, and a vote with and without a
\* comment, so that a repeat vote changes the vote, the comment, both or
\* neither.
Ballots ==
  {[vote |-> "confirm", comment |-> NoComment],
   [vote |-> "confirm", comment |-> "seen it too"],
   [vote |-> "deny", comment |-> NoComment],
   [vote |-> "uncertain", comment |-> "seen it too"]}

\* One request after the other: a request is sent when the one before is
\* answered, the votes are valid and on stored reports, and the database
\* answers every call.  The pass of createProximityAlerts a submission
\* starts is followed in SpecDispatch.
Next ==
  \/ \E u \in Users : Quiescent /\ PlainSubmission(u)
  \/ SubmitSave
  \/ SubmitAnalysed(PlainText, FALSE)
  \/ SubmitSaveAnalysis
  \/ SubmitSaveAnalysisFails
  \/ SubmitFindUser
  \/ SubmitSaveUser
  \/ \E u \in Users, r \in ReportIds, ballot \in Ballots :
       /\ Quiescent
       /\ reports[r].exists
       /\ VerifyFind(1, u, r, ballot.vote, ballot.comment, FALSE)
  \/ VerifyPopulate(1)
  \/ VerifySaveReport(1)
  \/ VerifyFindUser(1)
  \/ VerifySaveUser(1)

Spec == Init /\ [][Next]_vars

\* ------------------------------------------- the two routes, concurrent

\* Report 1 is stored, submitted by either user with PlainSubmission and
\* answered 201; the client of user 1 is connected.
InitConc ==
  /\ NoUi
  /\ \E reporter \in Users :
       /\ users = [u \in Users |->
                     IF u = reporter
                       THEN updateTrustScore([NewUser EXCEPT !.reportCount = 1])
                       ELSE NewUser]
       /\ reports = [r \in ReportIds |->
                       IF r = 1 THEN [NoReport EXCEPT !.exists = TRUE, !.reportedBy = reporter]
                                ELSE NoReport]
  /\ reqs = [q \in Reqs |-> IdleReq]
  /\ latest = NoVotes
  /\ ops = 1
  /\ doc = NewVerification
  /\ results = <<>>
  /\ accounts = [u \in Users |-> NewAccount(u)]
  /\ content = [r \in ReportIds |->
                  IF r = 1
                    THEN LET fraudReport ==
                               NewContent("phishing",
                                          [financialLoss |-> 0, affectedUsers |-> 0],
                                          UserLongitude,
                                          [phoneNumber |-> Undefined, email |-> Undefined,
                                           website |-> Undefined])
                         IN Analysed(fraudReport,
                                     analyzeFraudReport(fraudReport, PlainText, FALSE))
                    ELSE NoContent]
  /\ alerts = <<>>
  /\ passes = [r \in ReportIds |->
                 IF r = 1 THEN [NoPass EXCEPT !.proximity = "find", !.calls = 1,
                                              !.analysis = "ok", !.emitted = "unheard",
                                              !.status = 201]
                          ELSE NoPass]
  /\ matcher = IdleMatcher
  /\ submit = [IdleSubmit EXCEPT !.status = 201]
  /\ sockets = [s \in Sockets |->
                  IF s = 1 THEN Connected(NoSockets[s], 1) ELSE NoSockets[s]]
  /\ clock = 0

\* The slot a request takes is the first that is free.
FirstIdle(q) == \A p \in Reqs : p < q => reqs[p].pc # "idle"

\* Requests overlap, each going on when the call it waits for settles, and
\* a call to the database can be rejected.  The votes carry no comment.
NextConc ==
  \/ \E u \in Users : PlainSubmission(u)
  \/ SubmitSave
  \/ SubmitSaveFails
  \/ SubmitAnalysed(PlainText, FALSE)
  \/ SubmitSaveAnalysis
  \/ SubmitSaveAnalysisFails
  \/ SubmitFindUser
  \/ SubmitSaveUser
  \/ SubmitStatisticsFail
  \/ \E q \in Reqs, u \in Users, r \in ReportIds, vote \in VoteInputs, rejected \in BOOLEAN :
       /\ FirstIdle(q)
       /\ VerifyFind(q, u, r, vote, NoComment, rejected)
  \/ \E q \in Reqs : VerifyPopulate(q)
  \/ \E q \in Reqs : VerifySaveReport(q)
  \/ \E q \in Reqs : VerifyFindUser(q)
  \/ \E q \in Reqs : VerifySaveUser(q)
  \/ \E q \in Reqs : VerifyFails(q)

SpecConc == InitConc /\ [][NextConc]_vars

\* The radius that puts a user at [0, 0] exactly at its boundary from a
\* report at longitude 0.05.
BoundaryRadius == calculateDistance(UserLongitude, 50)

\* DELETE /api/users/account on the document in memory: user.isActive =
\* false; user.email = `deleted_${Date.now()}_${user.email}`
DeactivatedAccount(account, now) ==
  [account EXCEPT !.isActive = FALSE,
                  !.email = "deleted_" \o ToString(now) \o "_" \o @]

\* Accounts as registration, PUT /preferences, PUT /device and DELETE
\* /account leave them.
AccountInputs(u) ==
  {NewAccount(u),
   [NewAccount(u) EXCEPT !.preferences.alertRadius = BoundaryRadius,
                         !.preferences.notifications.sms = TRUE,
                         !.deviceInfo.fcmToken = "token"],
   [NewAccount(u) EXCEPT !.preferences.alertRadius = Km(5)],
   [NewAccount(u) EXCEPT !.preferences.alertRadius = Km(MinAlertRadius),
                         !.deviceInfo.fcmToken = "token"],
   [NewAccount(u) EXCEPT !.preferences.alertRadius = Km(20),
                         !.preferences.fraudTypes = {"phishing"}],
   [NewAccount(u) EXCEPT !.preferences.alertRadius = Km(MaxAlertRadius),
                         !.preferences.fraudTypes = {"ponzi", "lottery"},
                         !.phone = Undefined],
   [NewAccount(u) EXCEPT !.preferences.notifications.push = FALSE],
   DeactivatedAccount(NewAccount(u), 0)}

InitDispatch ==
  /\ NoUi
  /\ users = [u \in Users |-> NewUser]
  /\ reports = [r \in ReportIds |-> NoReport]
  /\ reqs = [q \in Reqs |-> IdleReq]
  /\ latest = NoVotes
  /\ ops = 0
  /\ doc = NewVerification
  /\ results = <<>>
  /\ accounts \in {f \in [Users -> UNION {AccountInputs(u) : u \in Users}] :
                     \A u \in Users : f[u] \in AccountInputs(u)}
  /\ content = [r \in ReportIds |-> NoContent]
  /\ alerts = <<>>
  /\ passes = [r \in ReportIds |-> NoPass]
  /\ matcher = IdleMatcher
  /\ NoLive

NextDispatch ==
  \/ \E u \in Users, fraudType \in FraudTypeInputs, impact \in Impacts,
        location \in ReportLongitudes, evidenceData \in EvidenceInputs :
       /\ Cardinality({r \in ReportIds : reports[r].exists}) < MaxSubmissions
       /\ SubmitPost(u, fraudType, impact, location, evidenceData)
  \/ SubmitSave
  \/ SubmitAnalysed(PlainText, FALSE)
  \/ SubmitSaveAnalysis
  \/ SubmitSaveAnalysisFails
  \/ SubmitFindUser
  \/ SubmitSaveUser
  \/ \E r \in ReportIds : ProximityFind(r)
  \/ \E a \in DOMAIN alerts : AlertSaved(a)
  \/ \E a \in DOMAIN alerts, channel \in Channels, sent \in BOOLEAN :
       SenderSettles(a, channel, sent)
  \/ \E a \in DOMAIN alerts : NotificationsSaved(a)

SpecDispatch == InitDispatch /\ [][NextDispatch]_vars

\* ----------------------------------------------------- createMatchAlerts

\* The alertType of the entries pushed on `alerts` for one user: the phone
\* number match, then the email match.
MatchAlertTypes(user, fraudReport) ==
  (IF /\ content[fraudReport].evidenceData.phoneNumber # Undefined
      /\ accounts[user].phone = content[fraudReport].evidenceData.phoneNumber
     THEN <<"phone_match">> ELSE <<>>)
  \o (IF /\ content[fraudReport].evidenceData.email # Undefined
         /\ accounts[user].email = content[fraudReport].evidenceData.email
        THEN <<"email_match">> ELSE <<>>)

\* The (user, alertType) pairs of the two nested loops, in their order,
\* each with the user's document as User.find returned it.
RECURSIVE MatchQueue(_, _)
MatchQueue(found, fraudReport) ==
  IF found = {} THEN <<>>
  ELSE LET user == CHOOSE u \in found : \A v \in found : u <= v
           types == MatchAlertTypes(user, fraudReport)
       IN [i \in DOMAIN types |-> <<user, types[i], accounts[user]>>]
          \o MatchQueue(found \ {user}, fraudReport)

\* new Alert({ user, fraudReport, ...alertData })
MatchAlert(user, fraudReport, alertType) ==
  NewAlert(user, fraudReport, alertType,
           IF alertType = "phone_match" THEN "Your Phone Number Reported"
                                        ELSE "Your Email Reported",
           [fraudType |-> content[fraudReport].fraudType, km |-> 0],
           "critical",
           IF alertType = "phone_match"
             THEN [phoneNumber |-> content[fraudReport].evidenceData.phoneNumber]
             ELSE [email |-> content[fraudReport].evidenceData.email])

\* No call of the service is at work.
Quiet ==
  /\ matcher.pc = "idle"
  /\ \A r \in ReportIds : passes[r].proximity # "find"
  /\ \A a \in DOMAIN alerts : alerts[a].pc \in {"idle", "rejected"}

\* NotificationService.createMatchAlerts(fraudReport) called on a stored
\* report: its User.find({ isActive: true }) is on its way.  No handler of
\* the repository makes this call; SpecService makes the calls of the
\* service one after the other.
CreateMatchAlerts(r) ==
  /\ reports[r].exists
  /\ Quiet
  /\ matcher.calls < MaxServiceCalls
  /\ matcher' = [matcher EXCEPT !.pc = "find", !.fraudReport = r, !.calls = @ + 1]
  /\ UNCHANGED <<accounts, content, alerts, passes>>
  /\ UNCHANGED <<users, reports, reqs, latest, ops, doc, results>>
  /\ UNCHANGED liveVars
  /\ UNCHANGED uiVars

\* User.find resolved.
MatchFind ==
  /\ matcher.pc = "find"
  /\ matcher' = [matcher EXCEPT
                   !.pc = "loop",
                   !.queue = MatchQueue({u \in Users : accounts[u].isActive},
                                        matcher.fraudReport),
                   !.current = 0,
                   !.first = Len(alerts) + 1]
  /\ UNCHANGED <<accounts, content, alerts, passes>>
  /\ UNCHANGED <<users, reports, reqs, latest, ops, doc, results>>
  /\ UNCHANGED liveVars
  /\ UNCHANGED uiVars

\* The loops go on once `await this.sendAlertNotifications(user, alert)` has
\* returned: the next alert is created and its alert.save() called, or the
\* loops end.
MatchStep ==
  /\ matcher.pc = "loop"
  /\ matcher.current # 0 => alerts[matcher.current].pc = "idle"
  /\ IF matcher.queue = <<>>
       THEN /\ matcher' = [matcher EXCEPT !.pc = "idle", !.current = 0]
            /\ UNCHANGED alerts
       ELSE /\ Len(alerts) < MaxAlerts
            /\ alerts' = Append(alerts,
                                [MatchAlert(Head(matcher.queue)[1], matcher.fraudReport,
                                            Head(matcher.queue)[2])
                                   EXCEPT !.recipient = Head(matcher.queue)[3]])
            /\ matcher' = [matcher EXCEPT !.queue = Tail(@),
                                          !.current = Len(alerts) + 1]
  /\ UNCHANGED <<accounts, content, passes>>
  /\ UNCHANGED <<users, reports, reqs, latest, ops, doc, results>>
  /\ UNCHANGED liveVars
  /\ UNCHANGED uiVars

\* NotificationService.createProximityAlerts(fraudReport) called on a stored
\* report: by POST /report the first time, once more after that.
CreateProximityAlerts(r) ==
  /\ reports[r].exists
  /\ Quiet
  /\ matcher.calls < MaxServiceCalls
  /\ passes' = [passes EXCEPT ![r].proximity = "find", ![r].calls = @ + 1]
  /\ matcher' = [matcher EXCEPT !.calls = @ + 1]
  /\ UNCHANGED <<accounts, content, alerts>>
  /\ UNCHANGED <<users, reports, reqs, latest, ops, doc, results>>
  /\ UNCHANGED liveVars
  /\ UNCHANGED uiVars

\* Mutation: the handler awaits the dispatch and answers 500 when it fails.
LookupFailedFailsSubmission(pass) ==
  [pass EXCEPT !.proximity = "failed", !.status = 500]

\* The catch of createProximityAlerts: the error is logged and the call
\* ends; the response of the submission has been sent and stays.
LookupFailed(pass) == [pass EXCEPT !.proximity = "failed"]

\* await User.find({location: {$near}}) rejected.
ProximityFindFails(r) ==
  /\ passes[r].proximity = "find"
  /\ passes' = [passes EXCEPT ![r] = LookupFailed(@)]
  /\ UNCHANGED <<accounts, content, alerts, matcher>>
  /\ UNCHANGED <<users, reports, reqs, latest, ops, doc, results>>
  /\ UNCHANGED liveVars
  /\ UNCHANGED uiVars

\* The insert of a new alert of createProximityAlerts rejected: the
\* callback ends there, and the catch of createProximityAlerts logs the
\* error; the callbacks of the other recipients go on.
AlertSaveFails(a) ==
  /\ alerts[a].pc = "saving"
  /\ a # matcher.current
  /\ alerts' = [alerts EXCEPT ![a].pc = "rejected"]
  /\ UNCHANGED <<accounts, content, passes, matcher>>
  /\ UNCHANGED <<users, reports, reqs, latest, ops, doc, results>>
  /\ UNCHANGED liveVars
  /\ UNCHANGED uiVars

\* The alert.save() that ends sendAlertNotifications rejected: its catch
\* logs the error, the collection keeps what it held.
NotificationsSaveFails(a) ==
  /\ alerts[a].pc = "sending"
  /\ alerts[a].pending = {}
  /\ alerts' = [alerts EXCEPT ![a].pc = "idle"]
  /\ UNCHANGED <<accounts, content, passes, matcher>>
  /\ UNCHANGED <<users, reports, reqs, latest, ops, doc, results>>
  /\ UNCHANGED liveVars
  /\ UNCHANGED uiVars

\* await User.find({ isActive: true }) of createMatchAlerts rejected: its
\* catch logs the error and the call ends with no alert created.
MatchFindFails ==
  /\ matcher.pc = "find"
  /\ matcher' = [matcher EXCEPT !.pc = "idle", !.queue = <<>>, !.current = 0,
                                !.first = Len(alerts) + 1]
  /\ UNCHANGED <<accounts, content, alerts, passes>>
  /\ UNCHANGED <<users, reports, reqs, latest, ops, doc, results>>
  /\ UNCHANGED liveVars
  /\ UNCHANGED uiVars

\* The `await alert.save()` inside the loops of createMatchAlerts rejected:
\* the one try/catch of the function is around both loops, so the error is
\* logged and the call ends; the alerts that were still to be created for
\* this user and for the users after it are not created.
MatchSaveFails ==
  /\ matcher.pc = "loop"
  /\ matcher.current # 0
  /\ alerts[matcher.current].pc = "saving"
  /\ alerts' = [alerts EXCEPT ![matcher.current].pc = "rejected"]
  /\ matcher' = [matcher EXCEPT !.pc = "idle", !.queue = <<>>, !.current = 0]
  /\ UNCHANGED <<accounts, content, passes>>
  /\ UNCHANGED <<users, reports, reqs, latest, ops, doc, results>>
  /\ UNCHANGED liveVars
  /\ UNCHANGED uiVars

NextService ==
  \/ \E r \in ReportIds : CreateProximityAlerts(r)
  \/ \E r \in ReportIds : ProximityFind(r)
  \/ \E r \in ReportIds : CreateMatchAlerts(r)
  \/ MatchFind
  \/ MatchStep
  \/ \E a \in DOMAIN alerts : AlertSaved(a)
  \/ \E a \in DOMAIN alerts, channel \in Channels, sent \in BOOLEAN :
       SenderSettles(a, channel, sent)
  \/ \E a \in DOMAIN alerts : NotificationsSaved(a)
  \/ \E r \in ReportIds : ProximityFindFails(r)
  \/ \E a \in DOMAIN alerts : AlertSaveFails(a)
  \/ \E a \in DOMAIN alerts : NotificationsSaveFails(a)
  \/ MatchFindFails
  \/ MatchSaveFails

\* Accounts with and without a phone, active and not, taking every fraud
\* type or some, reached by email or by push.
ServiceAccounts(u) ==
  {NewAccount(u),
   [NewAccount(u) EXCEPT !.phone = Undefined,
                         !.preferences.fraudTypes = {"phishing"}],
   [NewAccount(u) EXCEPT !.preferences.fraudTypes = {"ponzi", "lottery"},
                         !.preferences.notifications.email = FALSE,
                         !.deviceInfo.fcmToken = "token"],
   DeactivatedAccount(NewAccount(u), 0)}

\* The content of report 1: at the users' location or far from it, with
\* the priority POST /report gives it when no impact is given.
ServiceContents ==
  {LET fraudReport == NewContent(fraudType, [financialLoss |-> 0, affectedUsers |-> 0],
                                 location, evidenceData)
   IN Analysed(fraudReport, analyzeFraudReport(fraudReport, PlainText, FALSE)) :
     fraudType \in FraudTypes, location \in {UserLongitude, 150},
     evidenceData \in EvidenceInputs}

\* The users whose account and whose part (reporter or not) vary; the
\* other users are registered with the schema's defaults.
ServiceUsers == {1, 2}

\* Report 1 is stored and its reporter's statistics are updated: POST
\* /report is about to call createProximityAlerts.
InitService ==
  /\ NoUi
  /\ \E reporter \in ServiceUsers :
       /\ users = [u \in Users |->
                     IF u = reporter
                       THEN updateTrustScore([NewUser EXCEPT !.reportCount = 1])
                       ELSE NewUser]
       /\ reports = [r \in ReportIds |->
                       IF r = 1 THEN [NoReport EXCEPT !.exists = TRUE, !.reportedBy = reporter]
                                ELSE NoReport]
  /\ reqs = [q \in Reqs |-> IdleReq]
  /\ latest = NoVotes
  /\ ops = 1
  /\ doc = NewVerification
  /\ results = <<>>
  /\ accounts \in {f \in [Users -> UNION {ServiceAccounts(u) : u \in Users}] :
                     \A u \in Users :
                       f[u] \in IF u \in ServiceUsers THEN ServiceAccounts(u)
                                                     ELSE {NewAccount(u)}}
  /\ content \in {f \in [ReportIds -> ServiceContents \cup {NoContent}] :
                    /\ f[1] \in ServiceContents
                    /\ \A r \in ReportIds \ {1} : f[r] = NoContent}
  /\ alerts = <<>>
  /\ passes = [r \in ReportIds |-> NoPass]
  /\ matcher = IdleMatcher
  /\ NoLive

SpecService == InitService /\ [][NextService]_vars

\* ------------------------------------------------- sendAlertNotifications

\* Accounts for every setting of the three notification switches, with and
\* without a device token and a phone.
ChannelAccounts(u) ==
  {[NewAccount(u) EXCEPT !.preferences.notifications = switches,
                         !.deviceInfo.fcmToken = fcmToken,
                         !.phone = phone] :
     switches \in [email : BOOLEAN, sms : BOOLEAN, push : BOOLEAN],
     fcmToken \in {Undefined, "token"},
     phone \in {Undefined, PhoneOf(u)}}

\* Stored alerts of user 1 on report 1, of every severity, each channel
\* sent or not.
AlertInputs ==
  {[NewAlert(1, 1, "proximity", "Fraud Alert Nearby", [fraudType |-> "OTHER", km |-> 0],
             severity, [location |-> [distance |-> 0, coordinates |-> 0]])
      EXCEPT !.channels = [c \in Channels |-> IF c \in sent THEN SentNow ELSE NotSent],
             !.saved = [c \in Channels |-> IF c \in sent THEN SentNow ELSE NotSent],
             !.log.successes = [c \in Channels |-> IF c \in sent THEN 1 ELSE 0],
             !.pc = "idle"] :
     severity \in Severities, sent \in SUBSET Channels}

\* One stored alert, its recipient's account and the report it is about
\* (submitted by user 2, at the recipient's location).
InitChannel ==
  /\ NoUi
  /\ users = [u \in Users |-> IF u = 2 THEN updateTrustScore([NewUser EXCEPT !.reportCount = 1])
                                       ELSE NewUser]
  /\ reports = [r \in ReportIds |->
                  IF r = 1 THEN [NoReport EXCEPT !.exists = TRUE, !.reportedBy = 2]
                           ELSE NoReport]
  /\ reqs = [q \in Reqs |-> IdleReq]
  /\ latest = NoVotes
  /\ ops = 1
  /\ doc = NewVerification
  /\ results = <<>>
  /\ accounts \in {f \in [Users -> UNION {ChannelAccounts(u) : u \in Users}] :
                     /\ f[1] \in ChannelAccounts(1)
                     /\ \A u \in Users \ {1} : f[u] = NewAccount(u)}
  /\ NoLive
  /\ alerts \in {<<alert>> : alert \in AlertInputs}
  /\ content = [r \in ReportIds |->
                  IF r = 1 THEN [NoContent EXCEPT !.priority = alerts[1].severity]
                           ELSE NoContent]
  /\ passes = [r \in ReportIds |->
                 IF r = 1 THEN [NoPass EXCEPT !.proximity = "mapped", !.calls = 1,
                                              !.analysis = "ok", !.emitted = "unheard",
                                              !.status = 201]
                          ELSE NoPass]
  /\ matcher = IdleMatcher

\* sendAlertNotifications(user, alert) called on a stored alert that no
\* other call is working on: a later pass over the alert, with the user
\* document read for it.
SendAlertNotifications(a) ==
  /\ alerts[a].pc = "idle"
  /\ alerts[a].log.calls < MaxPasses
  /\ \E lost \in BOOLEAN :
       /\ sockets' = Emitted(sockets, UserRoom(alerts[a].user), NewAlertEvent(a), lost)
       /\ alerts' = [alerts EXCEPT ![a] =
                       Notified(accounts[@.user],
                                [@ EXCEPT !.channels = alerts[a].saved,
                                          !.recipient = accounts[alerts[a].user]],
                                Emission(sockets, UserRoom(alerts[a].user), lost))]
  /\ UNCHANGED <<accounts, content, passes, matcher>>
  /\ UNCHANGED <<users, reports, reqs, latest, ops, doc, results>>
  /\ UNCHANGED <<submit, clock>>
  /\ UNCHANGED uiVars

NextChannel ==
  \/ \E a \in DOMAIN alerts : SendAlertNotifications(a)
  \/ \E a \in DOMAIN alerts, channel \in Channels, sent \in BOOLEAN :
       SenderSettles(a, channel, sent)
  \/ \E a \in DOMAIN alerts : NotificationsSaved(a)
  \/ \E a \in DOMAIN alerts : NotificationsSaveFails(a)

SpecChannel == InitChannel /\ [][NextChannel]_vars

\* ------------------------------------- one report, several recipients

\* The accounts of SpecBatch: the reporter and the users around.
NumAccounts == 3

\* Recipients reached by push and email, or by the three channels.
BatchAccounts(u) ==
  {[NewAccount(u) EXCEPT !.deviceInfo.fcmToken = "token"],
   [NewAccount(u) EXCEPT !.deviceInfo.fcmToken = "token",
                         !.preferences.notifications.sms = TRUE]}

\* POST /report has stored report 1 of user 1 (ponzi, at the users'
\* location) and called createProximityAlerts: its User.find is on its way.
InitBatch ==
  /\ NoUi
  /\ users = [u \in Users |->
                IF u = 1 THEN updateTrustScore([NewUser EXCEPT !.reportCount = 1])
                         ELSE NewUser]
  /\ reports = [r \in ReportIds |->
                  IF r = 1 THEN [NoReport EXCEPT !.exists = TRUE, !.reportedBy = 1]
                           ELSE NoReport]
  /\ reqs = [q \in Reqs |-> IdleReq]
  /\ latest = NoVotes
  /\ ops = 1
  /\ doc = NewVerification
  /\ results = <<>>
  /\ accounts \in {f \in [1..NumAccounts -> UNION {BatchAccounts(u) : u \in 1..NumAccounts}] :
                     \A u \in 1..NumAccounts : f[u] \in BatchAccounts(u)}
  /\ content = [r \in ReportIds |->
                  IF r = 1
                    THEN LET fraudReport ==
                               NewContent("ponzi", [financialLoss |-> 0, affectedUsers |-> 0],
                                          UserLongitude,
                                          [phoneNumber |-> Undefined, email |-> Undefined, website |-> Undefined])
                         IN Analysed(fraudReport,
                                     analyzeFraudReport(fraudReport, PlainText, FALSE))
                    ELSE NoContent]
  /\ alerts = <<>>
  /\ passes = [r \in ReportIds |->
                 IF r = 1 THEN [NoPass EXCEPT !.proximity = "find", !.calls = 1,
                                              !.analysis = "ok", !.emitted = "unheard",
                                              !.status = 201]
                          ELSE NoPass]
  /\ matcher = IdleMatcher
  /\ NoLive

NextBatch ==
  \/ \E r \in ReportIds : ProximityFind(r)
  \/ \E a \in DOMAIN alerts : AlertSaved(a)
  \/ \E a \in DOMAIN alerts, channel \in Channels, sent \in BOOLEAN :
       SenderSettles(a, channel, sent)
  \/ \E a \in DOMAIN alerts : NotificationsSaved(a)

SpecBatch == InitBatch /\ [][NextBatch]_vars

\* ------------------------- POST /api/fraud/report, one await after another

\* Recipients reached by push and email, or by the three channels.
SubmitAccounts(u) ==
  {[NewAccount(u) EXCEPT !.deviceInfo.fcmToken = "token"],
   [NewAccount(u) EXCEPT !.deviceInfo.fcmToken = "token",
                         !.preferences.notifications.sms = TRUE]}

\* req.body.evidenceData: no phone number, or one of the scam patterns.
SubmitEvidence ==
  {[phoneNumber |-> Undefined, email |-> Undefined, website |-> Undefined],
   [phoneNumber |-> "+2348012345678", email |-> Undefined, website |-> Undefined]}

\* The handler has validated the request of a user and built the document
\* (new FraudReport, priority); its first fraudReport.save() is called.
InitSubmit ==
  /\ NoUi
  /\ users = [u \in Users |-> NewUser]
  /\ reports = [r \in ReportIds |-> NoReport]
  /\ reqs = [q \in Reqs |-> IdleReq]
  /\ latest = NoVotes
  /\ ops = 1
  /\ doc = NewVerification
  /\ results = <<>>
  /\ accounts \in {f \in [Users -> UNION {SubmitAccounts(u) : u \in Users}] :
                     \A u \in Users : f[u] \in SubmitAccounts(u)}
  /\ content = [r \in ReportIds |-> NoContent]
  /\ alerts = <<>>
  /\ passes = [r \in ReportIds |-> NoPass]
  /\ matcher = IdleMatcher
  /\ sockets = NoSockets
  /\ clock = 0
  /\ submit \in {[IdleSubmit EXCEPT
                    !.pc = "save", !.userId = 1, !.fraudReport = NextReportId,
                    !.document = NewContent(fraudType,
                                            [financialLoss |-> 0, affectedUsers |-> 0],
                                            UserLongitude, evidenceData)] :
                   fraudType \in FraudTypes, evidenceData \in SubmitEvidence}

NextSubmit ==
  \/ SubmitSave
  \/ \E textAnalysis \in TextAnalyses, threw \in BOOLEAN :
       SubmitAnalysed(textAnalysis, threw)
  \/ SubmitSaveAnalysis
  \/ SubmitSaveAnalysisFails
  \/ SubmitFindUser
  \/ SubmitSaveUser
  \/ \E r \in ReportIds : ProximityFind(r)
  \/ \E r \in ReportIds : ProximityFindFails(r)
  \/ \E a \in DOMAIN alerts : AlertSaved(a)
  \/ \E a \in DOMAIN alerts : AlertSaveFails(a)
  \/ \E a \in DOMAIN alerts, channel \in Channels, sent \in BOOLEAN :
       SenderSettles(a, channel, sent)
  \/ \E a \in DOMAIN alerts : NotificationsSaved(a)
  \/ \E a \in DOMAIN alerts : NotificationsSaveFails(a)

SpecSubmit == InitSubmit /\ [][NextSubmit]_vars

NextFailing ==
  \/ NextSubmit
  \/ SubmitSaveFails
  \/ SubmitStatisticsFail

\* Every step that can be taken is taken eventually: a request in flight
\* goes on, a call the database or a sender has been given settles.
SpecFailing == InitSubmit /\ [][NextFailing]_vars /\ WF_vars(NextFailing)

\* ------------------------------------------- the classification of a report

\* The texts a report can carry, by what analyzeText looks at: none, some,
\* or all of the risk indicators and of the urgency words, and each
\* sentiment.
ClassifyTexts ==
  [indicators : {0, 3, 9, NumRiskIndicators}, urgency : {0, NumUrgencyWords},
   sentiment : {"negative", "neutral", "positive"}, keywords : {{}}]

\* req.body.evidenceData: no phone number, one of the scam patterns or a
\* plain one; no website, a phishing one or a plain one.
ClassifyEvidence ==
  [phoneNumber : {Undefined, "+2348012345678", PhoneOf(1)}, email : {Undefined},
   website : {Undefined} \cup Websites]

\* A submission by the first user about to save its report, of any fraud
\* type, impact and evidence.
InitClassify ==
  /\ NoUi
  /\ users = [u \in Users |-> NewUser]
  /\ reports = [r \in ReportIds |-> NoReport]
  /\ reqs = [q \in Reqs |-> IdleReq]
  /\ latest = NoVotes
  /\ ops = 0
  /\ doc = NewVerification
  /\ results = <<>>
  /\ accounts = [u \in Users |-> NewAccount(u)]
  /\ content = [r \in ReportIds |-> NoContent]
  /\ alerts = <<>>
  /\ passes = [r \in ReportIds |-> NoPass]
  /\ matcher = IdleMatcher
  /\ sockets = NoSockets
  /\ clock = 0
  /\ submit \in {[IdleSubmit EXCEPT
                    !.pc = "save", !.userId = 1, !.fraudReport = NextReportId,
                    !.document = NewContent(fraudType, impact,
                                            UserLongitude, evidenceData)] :
                   fraudType \in FraudTypes, impact \in Impacts,
                   evidenceData \in ClassifyEvidence}

NextClassify ==
  \/ SubmitSave
  \/ \E text \in ClassifyTexts, threw \in BOOLEAN :
       SubmitAnalysed(analyzeText(text), threw)
  \/ SubmitSaveAnalysis

SpecClassify == InitClassify /\ [][NextClassify]_vars

\* ----------------------------------------------- live updates of a report

\* join_user_room and join_location_room events handled in one behaviour.
MaxJoins == 2

\* Longitudes clients send with join_location_room: in the degree square
\* of the users and of the report, and in the next one.
SocketLongitudes == {50, 1500}

\* The rooms joined so far, over all sockets.
Joins(socks) == {<<s, room>> \in Sockets \X UNION {socks[t].rooms : t \in Sockets} :
                   room \in socks[s].rooms}

\* Report 1 of user 1 (phishing, at the users' location) is stored with its
\* analysis and the handler waits for user.save(); the other users take
\* push and email; every socket is connected and in no room.
InitLive ==
  /\ NoUi
  /\ users = [u \in Users |-> NewUser]
  /\ reports = [r \in ReportIds |->
                  IF r = 1 THEN [NoReport EXCEPT !.exists = TRUE, !.reportedBy = 1]
                           ELSE NoReport]
  /\ reqs = [q \in Reqs |-> IdleReq]
  /\ latest = NoVotes
  /\ ops = 1
  /\ doc = NewVerification
  /\ results = <<>>
  /\ accounts = [u \in Users |-> [NewAccount(u) EXCEPT !.deviceInfo.fcmToken = "token"]]
  /\ content = [r \in ReportIds |->
                  IF r = 1
                    THEN LET fraudReport ==
                               NewContent("phishing",
                                          [financialLoss |-> 0, affectedUsers |-> 0],
                                          UserLongitude,
                                          [phoneNumber |-> Undefined, email |-> Undefined, website |-> Undefined])
                         IN Analysed(fraudReport,
                                     analyzeFraudReport(fraudReport, PlainText, FALSE))
                    ELSE NoContent]
  /\ alerts = <<>>
  /\ passes = [r \in ReportIds |->
                 IF r = 1 THEN [NoPass EXCEPT !.analysis = "ok"] ELSE NoPass]
  /\ matcher = IdleMatcher
  /\ sockets = [s \in Sockets |-> Connected(NoSockets[s], ClientOf(s))]
  /\ clock = 0
  /\ submit = [IdleSubmit EXCEPT
                 !.pc = "saveUser", !.userId = 1, !.fraudReport = 1,
                 !.document = content[1], !.aiAnalysis = content[1].aiAnalysis,
                 !.loadedUser = NewUser,
                 !.user = updateTrustScore([NewUser EXCEPT !.reportCount = 1])]

\* socket.on('join_user_room', (userId) => socket.join(`user_${userId}`)):
\* the userId is the one the event carries.
JoinUserRoom(s, userId) ==
  /\ sockets[s].connected
  /\ Cardinality(Joins(sockets)) < MaxJoins
  /\ UserRoom(userId) \notin sockets[s].rooms
  /\ sockets' = [sockets EXCEPT ![s] = Joined(@, UserRoom(userId))]
  /\ UNCHANGED <<users, reports, reqs, latest, ops, doc, results>>
  /\ UNCHANGED <<accounts, content, alerts, passes, matcher, submit, clock>>
  /\ UNCHANGED uiVars

\* socket.on('join_location_room', (coordinates) => socket.join(roomName))
JoinLocationRoom(s, lat, lng) ==
  /\ sockets[s].connected
  /\ Cardinality(Joins(sockets)) < MaxJoins
  /\ LocationRoom(lat, lng) \notin sockets[s].rooms
  /\ sockets' = [sockets EXCEPT ![s] = Joined(@, LocationRoom(lat, lng))]
  /\ UNCHANGED <<users, reports, reqs, latest, ops, doc, results>>
  /\ UNCHANGED <<accounts, content, alerts, passes, matcher, submit, clock>>
  /\ UNCHANGED uiVars

NextLive ==
  \/ \E s \in Sockets, userId \in Users : JoinUserRoom(s, userId)
  \/ \E s \in Sockets, lng \in SocketLongitudes : JoinLocationRoom(s, 0, lng)
  \/ SubmitSaveUser
  \/ \E r \in ReportIds : ProximityFind(r)
  \/ \E a \in DOMAIN alerts : AlertSaved(a)
  \/ \E a \in DOMAIN alerts, channel \in Channels, sent \in BOOLEAN :
       SenderSettles(a, channel, sent)
  \/ \E a \in DOMAIN alerts : NotificationsSaved(a)

SpecLive == InitLive /\ [][NextLive]_vars

\* leaveLocationRoom(coordinates) of the client: socket.emit(
\* 'leave_location_room', coordinates).  io.on('connection') registers
\* handlers for join_user_room, join_location_room and disconnect only, so
\* the server does nothing with the event and the socket stays in the room.
LeaveLocationRoom(s, lat, lng) ==
  /\ sockets[s].connected
  /\ LocationRoom(lat, lng) \in sockets[s].rooms
  /\ LocationRoom(lat, lng) \notin sockets[s].left
  /\ sockets' = [sockets EXCEPT ![s].left = @ \cup {LocationRoom(lat, lng)}]
  /\ UNCHANGED <<users, reports, reqs, latest, ops, doc, results>>
  /\ UNCHANGED <<accounts, content, alerts, passes, matcher, submit, clock>>
  /\ UNCHANGED uiVars

\* Clients join and leave location rooms while the submission of report 1
\* is about to emit new_fraud_report.
NextRooms ==
  \/ \E s \in Sockets, userId \in Users : JoinUserRoom(s, userId)
  \/ \E s \in Sockets, lng \in SocketLongitudes : JoinLocationRoom(s, 0, lng)
  \/ \E s \in Sockets, lng \in SocketLongitudes : LeaveLocationRoom(s, 0, lng)
  \/ SubmitSaveUser

SpecRooms == InitLive /\ [][NextRooms]_vars

\* ------------------------------------------ reverseGeocode (LocationContext)

\* Coordinates a position has, in hundred-thousandths of a degree.
Latitudes == {0, 3777493, 1907598, -3386882}
Longitudes == {0, -12241942, 7287766}

\* Number.prototype.toFixed(4) of a coordinate: in ten-thousandths of a
\* degree, rounded to the nearest.
toFixed4(coordinate) == (coordinate + 5) \div 10

\* `${lat.toFixed(4)}, ${lng.toFixed(4)}`
CoordinateString(lat, lng) ==
  [text |-> "lat, lng", lat |-> toFixed4(lat), lng |-> toFixed4(lng)]

\* The address of a result of the geocoding service.
Geocoded(text) == [text |-> text, lat |-> 0, lng |-> 0]

\* The catch of reverseGeocode: the basic location info is returned.
Caught(call, failure) ==
  [call EXCEPT !.pc = "done", !.failure = failure, !.settled = "resolved",
               !.address = CoordinateString(call.lat, call.lng)]

\* reverseGeocode(lat, lng) down to its first wait: with Google Maps
\* loaded it returns the promise wrapping geocoder.geocode, whose callback
\* is still to come; without, it awaits the fetch of Nominatim.
ReverseGeocode(lat, lng, google) ==
  /\ geocode.pc \in {"idle", "done"}
  /\ geocode' = [IdleGeocoder EXCEPT !.pc = IF google THEN "geocoder" ELSE "fetch",
                                     !.lat = lat, !.lng = lng, !.google = google]
  /\ UNCHANGED <<users, reports, reqs, latest, ops, doc, results>>
  /\ UNCHANGED alertVars
  /\ UNCHANGED liveVars
  /\ UNCHANGED <<response, notifications, auth, inflight>>

\* The callback of geocoder.geocode: resolve with the first result, or
\* reject(new Error('Geocoding failed')).  The promise was returned, not
\* awaited, so the function's try block was left before it settles and its
\* catch does not see the rejection.
GeocoderCallback(status, hasResult) ==
  /\ geocode.pc = "geocoder"
  /\ geocode' = IF status = "OK" /\ hasResult
                  THEN [geocode EXCEPT !.pc = "done", !.settled = "resolved",
                                       !.address = Geocoded("formatted_address")]
                  ELSE [geocode EXCEPT !.pc = "done", !.settled = "rejected",
                                       !.failure = IF status = "OK" THEN "ZERO_RESULTS"
                                                                    ELSE status]
  /\ UNCHANGED <<users, reports, reqs, latest, ops, doc, results>>
  /\ UNCHANGED alertVars
  /\ UNCHANGED liveVars
  /\ UNCHANGED <<response, notifications, auth, inflight>>

\* await fetch(...) settled: the request failed, the response is not ok
\* (throw), or response.json() is awaited.
FetchSettles(outcome) ==
  /\ geocode.pc = "fetch"
  /\ geocode' = IF outcome = "ok" THEN [geocode EXCEPT !.pc = "json"]
                                  ELSE Caught(geocode, outcome)
  /\ UNCHANGED <<users, reports, reqs, latest, ops, doc, results>>
  /\ UNCHANGED alertVars
  /\ UNCHANGED liveVars
  /\ UNCHANGED <<response, notifications, auth, inflight>>

\* await response.json() settled: the body does not parse, has no
\* display_name (throw), or has one.
JsonSettles(outcome) ==
  /\ geocode.pc = "json"
  /\ geocode' = IF outcome = "display_name"
                  THEN [geocode EXCEPT !.pc = "done", !.settled = "resolved",
                                       !.address = Geocoded("display_name")]
                  ELSE Caught(geocode, outcome)
  /\ UNCHANGED <<users, reports, reqs, latest, ops, doc, results>>
  /\ UNCHANGED alertVars
  /\ UNCHANGED liveVars
  /\ UNCHANGED <<response, notifications, auth, inflight>>

\* The application has started; no reverseGeocode call made.
InitGeocode ==
  /\ users = [u \in Users |-> NewUser]
  /\ reports = [r \in ReportIds |-> NoReport]
  /\ reqs = [q \in Reqs |-> IdleReq]
  /\ latest = NoVotes
  /\ ops = 0
  /\ doc = NewVerification
  /\ results = <<>>
  /\ NoDispatch
  /\ NoLive
  /\ NoUi

NextGeocode ==
  \/ \E lat \in Latitudes, lng \in Longitudes, google \in BOOLEAN :
       ReverseGeocode(lat, lng, google)
  \/ \E status \in {"OK", "ZERO_RESULTS", "ERROR"}, hasResult \in BOOLEAN :
       GeocoderCallback(status, hasResult)
  \/ \E outcome \in {"ok", "not ok", "network error"} : FetchSettles(outcome)
  \/ \E outcome \in {"display_name", "no display_name", "parse error"} :
       JsonSettles(outcome)

SpecGeocode == InitGeocode /\ [][NextGeocode]_vars

\* ------------------------------------------- the recipient's alert routes

\* Days that pass in one behaviour of SpecInbox.
MaxClock == 1

\* The alert is a document of the collection: its insert has resolved.
InCollection(alert) == alert.pc \notin {"saving", "rejected"}

\* Mutation: the lookup by _id alone.
FindOneOfAnyUser(a, userId) ==
  /\ a \in DOMAIN alerts
  /\ InCollection(alerts[a])

\* Alert.findOne({ _id: req.params.id, user: req.user._id }) finds it.
FindOne(a, userId) ==
  /\ a \in DOMAIN alerts
  /\ InCollection(alerts[a])
  /\ alerts[a].user = userId

\* Mutation: reading an alert starts its retention window again.
MarkAsReadRenews(alert, now) ==
  [alert EXCEPT !.isRead = TRUE, !.readAt = <<now>>, !.expiresAt = now + RetentionDays]

\* alertSchema.methods.markAsRead up to its this.save(): the document in
\* memory, readAt being the time of the call.
markAsRead(alert, now) == [alert EXCEPT !.isRead = TRUE, !.readAt = <<now>>]

\* alert.isActive = false
Deactivated(alert) == [alert EXCEPT !.isActive = FALSE]

\* The paths of an alert that the handlers of the router assign.
Paths(alert) ==
  [isRead |-> alert.isRead, readAt |-> alert.readAt, isActive |-> alert.isActive,
   expiresAt |-> alert.expiresAt]

\* alert.save() of a document that was loaded: the paths the handler
\* changed are $set, the others keep what the collection holds.  A path
\* in `assigned` was given a new Date() by the handler: its time differs
\* from the loaded one to the millisecond, so it is $set on every save.
SavedAlert(stored, old, new, assigned) ==
  [stored EXCEPT
     !.isRead = IF new.isRead # old.isRead THEN new.isRead ELSE @,
     !.readAt = IF "readAt" \in assigned \/ new.readAt # old.readAt
                  THEN new.readAt ELSE @,
     !.isActive = IF new.isActive # old.isActive THEN new.isActive ELSE @,
     !.expiresAt = IF new.expiresAt # old.expiresAt THEN new.expiresAt ELSE @]

\* The _id of the alerts, in creation order, as the string a path carries.
IdStrings == <<"1", "2", "3", "4", "5">>

\* The cast of req.params.id to an ObjectId in Alert.findOne: the position
\* of the id, or 0 when the string is no ObjectId (a CastError is thrown).
CastId(id) ==
  IF \E a \in DOMAIN IdStrings : IdStrings[a] = id
    THEN CHOOSE a \in DOMAIN IdStrings : IdStrings[a] = id
    ELSE 0

\* res.status(status).json(...) of a handler.
Responded(handler, method, path, userId, status, data) ==
  [handler |-> handler, method |-> method, path |-> path, userId |-> userId,
   status |-> status, data |-> data]

\* The status of a handler that looks the alert up by id and user: 500 in
\* its catch when the id does not cast, 404 when findOne finds nothing.
LookupStatus(userId, id) ==
  IF CastId(id) = 0 THEN 500
  ELSE IF ~FindOne(CastId(id), userId) THEN 404
  ELSE 200

\* Requests that wait for the database at one time.
MaxPending == 2

\* A request arrives at the router: `ops` counts the requests.
Arrives ==
  /\ ops < MaxOps
  /\ ops' = ops + 1
  /\ UNCHANGED <<users, reports, reqs, latest, doc, results>>

\* const {page = 1, limit = 20, severity, alertType, isRead} = req.query
DefaultLimit == 20
NoQuery ==
  [page |-> 1, limit |-> DefaultLimit, severity |-> Undefined, alertType |-> Undefined,
   isRead |-> Undefined]

\* The query strings of the requests of GET /.
Queries ==
  {NoQuery,
   [NoQuery EXCEPT !.isRead = "true"],
   [NoQuery EXCEPT !.isRead = "false"],
   [NoQuery EXCEPT !.severity = "critical"],
   [NoQuery EXCEPT !.alertType = "proximity"],
   [NoQuery EXCEPT !.limit = 1],
   [NoQuery EXCEPT !.limit = 1, !.page = 2]}

\* A request that waits for a call to the database: `pc` is the call,
\* `alert` the document it found, `loaded` and `changed` the paths of that
\* document as loaded and as the handler changed them, or `changed` the
\* update of an updateMany (<<>>: none), `assigned` the paths the handler
\* gave a new Date(), `data` what the handler has of its response.
Waiting(handler, method, path, userId, pc) ==
  [handler |-> handler, method |-> method, path |-> path, userId |-> userId,
   pc |-> pc, alert |-> 0, loaded |-> <<>>, changed |-> <<>>, assigned |-> {},
   query |-> NoQuery, data |-> NoData]

\* `inflight` is a bag: two requests that wait with the same content are
\* two requests.
Waits(request) == BagIn(request, inflight)
Enqueued(request) == inflight (+) SetToBag({request})
Dequeued(request) == inflight (-) SetToBag({request})

\* The alerts that match const query = {user, isActive: true} with the
\* filters of the query string; isRead is compared with the string 'true'.
Matching(userId, query) ==
  {a \in DOMAIN alerts :
     /\ FindOne(a, userId)
     /\ alerts[a].isActive
     /\ (query.severity # Undefined => alerts[a].severity = query.severity)
     /\ (query.alertType # Undefined => alerts[a].alertType = query.alertType)
     /\ (query.isRead # Undefined => alerts[a].isRead = (query.isRead = "true"))}

\* .sort({createdAt: -1}): the orders of the alerts with the newest first;
\* alerts created at the same time come in any order.
Sorted(found) ==
  {list \in [1..Cardinality(found) -> found] :
     /\ \A i, j \in DOMAIN list : i # j => list[i] # list[j]
     /\ \A i, j \in DOMAIN list :
          i < j => alerts[list[i]].createdAt >= alerts[list[j]].createdAt}

\* .limit(limit).skip((page - 1) * limit)
Page(list, page, limit) ==
  SubSeq(list, (page - 1) * limit + 1, Min(page * limit, Len(list)))

\* GET /api/alerts/ down to its second wait: Alert.find(query) with sort,
\* limit and skip has resolved and Alert.countDocuments(query) is called;
\* or Alert.find was rejected and the catch of the handler answers 500.
ListAlerts(userId, query, rejected) ==
  /\ BagCardinality(inflight) < MaxPending
  /\ IF rejected
       THEN /\ response' = Responded("GET /", "GET", <<>>, userId, 500, NoData)
            /\ UNCHANGED inflight
       ELSE /\ \E list \in Sorted(Matching(userId, query)) :
                 LET page == Page(list, query.page, query.limit)
                 IN inflight' =
                      Enqueued([Waiting("GET /", "GET", <<>>, userId, "countTotal") EXCEPT
                               !.query = query,
                               !.data.list = page,
                               !.data.alerts = {page[i] : i \in DOMAIN page}])
            /\ UNCHANGED response
  /\ UNCHANGED alertVars
  /\ Arrives
  /\ UNCHANGED liveVars
  /\ UNCHANGED <<notifications, auth, geocode>>

\* Alert.countDocuments(query) resolved; the count of the unread is called.
ListCountTotal(request) ==
  /\ Waits(request)
  /\ request.pc = "countTotal"
  /\ inflight' = Dequeued(request) (+)
       SetToBag({[request EXCEPT
                    !.pc = "countUnread",
                    !.data.total = Cardinality(Matching(request.userId, request.query))]})
  /\ UNCHANGED alertVars
  /\ UNCHANGED <<users, reports, reqs, latest, ops, doc, results>>
  /\ UNCHANGED liveVars
  /\ UNCHANGED <<response, notifications, auth, geocode>>

\* Alert.countDocuments({user, isActive: true, isRead: false}) resolved: the
\* response, with what the three calls found, each at its own time.
ListCountUnread(request) ==
  /\ Waits(request)
  /\ request.pc = "countUnread"
  /\ response' =
       Responded(request.handler, request.method, request.path, request.userId, 200,
                 [request.data EXCEPT
                    !.unread = Cardinality({a \in Matching(request.userId, NoQuery) :
                                              ~alerts[a].isRead})])
  /\ inflight' = Dequeued(request)
  /\ UNCHANGED alertVars
  /\ UNCHANGED <<users, reports, reqs, latest, ops, doc, results>>
  /\ UNCHANGED liveVars
  /\ UNCHANGED <<notifications, auth, geocode>>

\* GET /api/alerts/:id: the alert that Alert.findOne found, 404 when it
\* found none, 500 in the catch when it was rejected.
GetAlert(userId, id, rejected) ==
  /\ response' =
       LET status == IF rejected THEN 500 ELSE LookupStatus(userId, id)
       IN Responded("GET /:id", "GET", <<id>>, userId, status,
                    IF status = 200 THEN [NoData EXCEPT !.alerts = {CastId(id)}]
                                    ELSE NoData)
  /\ UNCHANGED alertVars
  /\ Arrives
  /\ UNCHANGED liveVars
  /\ UNCHANGED <<notifications, auth, geocode, inflight>>

\* A handler that looks the alert up by id and user, down to its second
\* wait: Alert.findOne has resolved or was rejected; a rejected findOne
\* and an id that is no ObjectId end in the catch (500), an alert that is
\* not the user's is not found (404), and otherwise the handler changes
\* the document and calls its save().
Lookup(handler, method, path, userId, id, changed, assigned, rejected) ==
  /\ BagCardinality(inflight) < MaxPending
  /\ IF ~rejected /\ LookupStatus(userId, id) = 200
       THEN /\ inflight' =
                 Enqueued([Waiting(handler, method, path, userId, "save") EXCEPT
                          !.alert = CastId(id),
                          !.loaded = <<Paths(alerts[CastId(id)])>>,
                          !.changed = <<Paths(changed)>>,
                          !.assigned = assigned])
            /\ UNCHANGED response
       ELSE /\ response' = Responded(handler, method, path, userId,
                                     IF rejected THEN 500
                                                 ELSE LookupStatus(userId, id),
                                     NoData)
            /\ UNCHANGED inflight
  /\ UNCHANGED alertVars
  /\ Arrives
  /\ UNCHANGED liveVars
  /\ UNCHANGED <<notifications, auth, geocode>>

\* The save() of the handler resolved: the changed paths are written, and
\* the response.
LookupSave(request) ==
  /\ Waits(request)
  /\ request.pc = "save"
  /\ request.handler \in {"PUT /:id/read", "DELETE /:id"}
  /\ alerts' = [alerts EXCEPT ![request.alert] =
                  SavedAlert(@, request.loaded[1], request.changed[1], request.assigned)]
  /\ response' = Responded(request.handler, request.method, request.path,
                           request.userId, 200, NoData)
  /\ inflight' = Dequeued(request)
  /\ UNCHANGED <<accounts, content, passes, matcher>>
  /\ UNCHANGED <<users, reports, reqs, latest, ops, doc, results>>
  /\ UNCHANGED liveVars
  /\ UNCHANGED <<notifications, auth, geocode>>

\* The call a request waits for is rejected: the catch of the handler
\* answers 500 and nothing is written.
Rejected(request) ==
  /\ Waits(request)
  /\ response' = Responded(request.handler, request.method, request.path,
                           request.userId, 500, NoData)
  /\ inflight' = Dequeued(request)
  /\ UNCHANGED alertVars
  /\ UNCHANGED <<users, reports, reqs, latest, ops, doc, results>>
  /\ UNCHANGED liveVars
  /\ UNCHANGED <<notifications, auth, geocode>>

\* PUT /api/alerts/:id/read down to the this.save() of alert.markAsRead().
MarkRead(userId, id, rejected) ==
  Lookup("PUT /:id/read", "PUT", <<id, "read">>, userId, id,
         IF LookupStatus(userId, id) = 200 THEN markAsRead(alerts[CastId(id)], clock)
                                           ELSE <<>>,
         {"readAt"}, rejected)

\* The filter of PUT /read-all: { user: req.user._id, isRead: false }.
UnreadOf(alert, userId) ==
  InCollection(alert) /\ alert.user = userId /\ ~alert.isRead

\* PUT /api/alerts/read-all down to its wait: Alert.updateMany({ user,
\* isRead: false }, { isRead: true, readAt: new Date() }) is called, the
\* date of the update being the time of the call.
ReadAll(userId) ==
  /\ BagCardinality(inflight) < MaxPending
  /\ inflight' =
       Enqueued([Waiting("PUT /read-all", "PUT", <<"read-all">>, userId, "updateMany") EXCEPT
                !.changed = <<[isRead |-> TRUE, readAt |-> <<clock>>]>>])
  /\ UNCHANGED alertVars
  /\ Arrives
  /\ UNCHANGED liveVars
  /\ UNCHANGED <<response, notifications, auth, geocode>>

\* The updateMany resolved: the alerts that match the filter when the
\* update runs get the update of the call, and the response.
ReadAllUpdate(request) ==
  /\ Waits(request)
  /\ request.pc = "updateMany"
  /\ alerts' = [a \in DOMAIN alerts |->
                  IF UnreadOf(alerts[a], request.userId)
                    THEN [alerts[a] EXCEPT !.isRead = request.changed[1].isRead,
                                           !.readAt = request.changed[1].readAt]
                    ELSE alerts[a]]
  /\ response' = Responded(request.handler, request.method, request.path,
                           request.userId, 200, NoData)
  /\ inflight' = Dequeued(request)
  /\ UNCHANGED <<accounts, content, passes, matcher>>
  /\ UNCHANGED <<users, reports, reqs, latest, ops, doc, results>>
  /\ UNCHANGED liveVars
  /\ UNCHANGED <<notifications, auth, geocode>>

\* DELETE /api/alerts/:id down to its alert.save().
DeleteAlert(userId, id, rejected) ==
  Lookup("DELETE /:id", "DELETE", <<id>>, userId, id,
         IF LookupStatus(userId, id) = 200 THEN Deactivated(alerts[CastId(id)])
                                           ELSE <<>>,
         {}, rejected)

\* GET /api/alerts/stats: Alert.aggregate over the user's active alerts,
\* or 500 in the catch when the aggregate was rejected.
GetStats(userId, rejected) ==
  /\ response' =
       LET found == {a \in DOMAIN alerts : FindOne(a, userId) /\ alerts[a].isActive}
       IN IF rejected
            THEN Responded("GET /stats", "GET", <<"stats">>, userId, 500, NoData)
            ELSE
          Responded("GET /stats", "GET", <<"stats">>, userId, 200,
                    [alerts |-> {},
                     list |-> <<>>,
                     total |-> Cardinality(found),
                     unread |-> Cardinality({a \in found : ~alerts[a].isRead}),
                     bySeverity |-> [v \in Severities |->
                                       Cardinality({a \in found : alerts[a].severity = v})],
                     byType |-> [t \in {"proximity", "phone_match", "email_match"} |->
                                   Cardinality({a \in found : alerts[a].alertType = t})]])
  /\ UNCHANGED alertVars
  /\ Arrives
  /\ UNCHANGED liveVars
  /\ UNCHANGED <<notifications, auth, geocode, inflight>>

\* A day passes.
Tick ==
  /\ clock < MaxClock
  /\ clock' = clock + 1
  /\ UNCHANGED <<submit, sockets>>
  /\ UNCHANGED alertVars
  /\ UNCHANGED <<users, reports, reqs, latest, ops, doc, results>>
  /\ UNCHANGED uiVars

\* Report 1, submitted by user 1 at the users' location, is stored, and two
\* createProximityAlerts calls on it have each created an alert for user 2,
\* who has a device token and takes push only: the two inserts are on
\* their way.  Two requests to the alerts router are to come.
InitInbox ==
  /\ NoUi
  /\ users = [u \in Users |->
                IF u = 1 THEN updateTrustScore([NewUser EXCEPT !.reportCount = 1])
                         ELSE NewUser]
  /\ reports = [r \in ReportIds |->
                  IF r = 1 THEN [NoReport EXCEPT !.exists = TRUE, !.reportedBy = 1]
                           ELSE NoReport]
  /\ reqs = [q \in Reqs |-> IdleReq]
  /\ latest = NoVotes
  /\ ops = MaxOps - 2
  /\ doc = NewVerification
  /\ results = <<>>
  /\ accounts = [u \in Users |->
                   IF u = 2 THEN [NewAccount(u) EXCEPT
                                    !.deviceInfo.fcmToken = "token",
                                    !.preferences.notifications.email = FALSE]
                            ELSE NewAccount(u)]
  /\ content = [r \in ReportIds |->
                  IF r = 1
                    THEN LET fraudReport ==
                               NewContent("ponzi", [financialLoss |-> 0, affectedUsers |-> 0],
                                          UserLongitude,
                                          [phoneNumber |-> Undefined, email |-> Undefined, website |-> Undefined])
                         IN Analysed(fraudReport,
                                     analyzeFraudReport(fraudReport, PlainText, FALSE))
                    ELSE NoContent]
  /\ NoLive
  /\ alerts = ProximityAlerts({2}, 1) \o ProximityAlerts({2}, 1)
  /\ passes = [r \in ReportIds |->
                 IF r = 1 THEN [NoPass EXCEPT !.proximity = "mapped", !.calls = 2,
                                              !.analysis = "ok", !.emitted = "unheard",
                                              !.status = 201]
                          ELSE NoPass]
  /\ matcher = [IdleMatcher EXCEPT !.calls = 2]

NextInbox ==
  \/ \E a \in DOMAIN alerts : AlertSaved(a)
  \/ \E a \in DOMAIN alerts, channel \in Channels, sent \in BOOLEAN :
       SenderSettles(a, channel, sent)
  \/ \E a \in DOMAIN alerts : NotificationsSaved(a)
  \/ \E u \in Users, a \in DOMAIN alerts, rejected \in BOOLEAN :
       MarkRead(u, IdStrings[a], rejected)
  \/ \E u \in Users : ReadAll(u)
  \/ \E u \in Users, a \in DOMAIN alerts, rejected \in BOOLEAN :
       DeleteAlert(u, IdStrings[a], rejected)
  \/ \E request \in BagToSet(inflight) : LookupSave(request)
  \/ \E request \in BagToSet(inflight) : ReadAllUpdate(request)
  \/ \E request \in BagToSet(inflight) : Rejected(request)
  \/ Tick

SpecInbox == InitInbox /\ [][NextInbox]_vars

\* ------------------------------------------------------ the alerts router

\* The routes of the alerts router in the order router.get / .put /
\* .delete register them; a segment that starts with ':' is a parameter.
AlertsRoutes ==
  <<[method |-> "GET", path |-> <<>>],
    [method |-> "GET", path |-> <<":id">>],
    [method |-> "PUT", path |-> <<":id", "read">>],
    [method |-> "PUT", path |-> <<"read-all">>],
    [method |-> "DELETE", path |-> <<":id">>],
    [method |-> "GET", path |-> <<"stats">>]>>

\* The route's layer matches the request: same method, and the path
\* matches the pattern segment by segment, a parameter matching any.
Matches(route, method, path) ==
  /\ route.method = method
  /\ Len(route.path) = Len(path)
  /\ \A i \in DOMAIN path : route.path[i] = ":id" \/ route.path[i] = path[i]

\* The route express hands the request to: the first registered route
\* that matches (0: none, the request falls through the router).
Routed(method, path) ==
  LET matching == {i \in DOMAIN AlertsRoutes : Matches(AlertsRoutes[i], method, path)}
  IN IF matching = {} THEN 0 ELSE CHOOSE i \in matching : \A j \in matching : i <= j

\* The paths a request to the router can carry, and the route of each
\* method and path as Routed gives it.
AllPaths ==
  {<<>>, <<"read-all">>, <<"stats">>, <<"stats", "read">>}
    \cup {<<IdStrings[a]>> : a \in DOMAIN IdStrings}
    \cup {<<IdStrings[a], "read">> : a \in DOMAIN IdStrings}
RouteOf ==
  [method \in {"GET", "PUT", "DELETE"}, path \in AllPaths |-> Routed(method, path)]

\* A request to /api/alerts of an authenticated user, down to the second
\* wait of the handler of the route it is routed to, or to its response;
\* with no route, the 404 of app.use('*').  `rejected`: the first call to
\* the database of the handler is rejected (the updateMany of PUT
\* /read-all is waited for, and rejected, in a step of its own).
AlertsRequest(userId, method, path, query, rejected) ==
  LET route == RouteOf[method, path]
  IN
  CASE route = 1 -> ListAlerts(userId, query, rejected)
    [] route = 2 -> GetAlert(userId, path[1], rejected)
    [] route = 3 -> MarkRead(userId, path[1], rejected)
    [] route = 4 -> ReadAll(userId)
    [] route = 5 -> DeleteAlert(userId, path[1], rejected)
    [] route = 6 -> GetStats(userId, rejected)
    [] OTHER -> /\ response' = Responded("*", method, path, userId, 404, NoData)
                /\ UNCHANGED alertVars
                /\ Arrives
                /\ UNCHANGED liveVars
                /\ UNCHANGED <<notifications, auth, geocode, inflight>>

\* The paths of the requests: the routes' literals, and the id routes with
\* the id of each alert, the id of no alert, and no ObjectId.
RequestPaths ==
  {<<>>, <<"read-all">>, <<"stats">>}
    \cup {<<IdStrings[a]>> : a \in 1..(Len(alerts) + 1)}
    \cup {<<IdStrings[a], "read">> : a \in 1..(Len(alerts) + 1)}
    \cup {<<"stats", "read">>}

\* sendAlertNotifications ran to its end on the alert, every sender it
\* invoked returning true.
Delivered(user, alert) ==
  LET notified == Notified(user, Saved(alert), "unheard")
      settled == [notified EXCEPT
                    !.pending = {},
                    !.channels = [c \in Channels |->
                                    IF c \in notified.pending THEN SentNow ELSE @[c]],
                    !.log.outcome = [c \in Channels |->
                                       IF c \in notified.pending THEN "ok" ELSE @[c]],
                    !.log.successes = [c \in Channels |->
                                         IF c \in notified.pending THEN 1 ELSE @[c]]]
  IN [Saved(settled) EXCEPT !.pc = "idle"]

\* Two reports are stored, report 1 of user 1 and report 2 of user 2, each
\* at the users' location; the other user got the proximity alert of each,
\* and both alerts are dispatched.  Two requests to the alerts router are
\* to come.
InitRoutes ==
  /\ NoUi
  /\ users = [u \in Users |->
                IF u \in {1, 2} THEN updateTrustScore([NewUser EXCEPT !.reportCount = 1])
                                ELSE NewUser]
  /\ reports = [r \in ReportIds |->
                  IF r \in {1, 2} THEN [NoReport EXCEPT !.exists = TRUE, !.reportedBy = r]
                                  ELSE NoReport]
  /\ reqs = [q \in Reqs |-> IdleReq]
  /\ latest = NoVotes
  /\ ops = MaxOps - 2
  /\ doc = NewVerification
  /\ results = <<>>
  /\ accounts = [u \in Users |-> NewAccount(u)]
  /\ \E fraudType \in FraudTypes :
       content = [r \in ReportIds |->
                    IF r \in {1, 2}
                      THEN LET fraudReport ==
                                 NewContent(fraudType, [financialLoss |-> 0, affectedUsers |-> 0],
                                            UserLongitude,
                                            [phoneNumber |-> Undefined, email |-> Undefined, website |-> Undefined])
                           IN Analysed(fraudReport,
                                       analyzeFraudReport(fraudReport, PlainText, FALSE))
                      ELSE NoContent]
  /\ NoLive
  /\ alerts = [a \in {1, 2} |->
                 Delivered(accounts[3 - a], ProximityAlerts({3 - a}, a)[1])]
  /\ passes = [r \in ReportIds |->
                 IF r \in {1, 2} THEN [NoPass EXCEPT !.proximity = "mapped", !.calls = 1,
                                                     !.analysis = "ok", !.emitted = "unheard",
                                                     !.status = 201]
                                 ELSE NoPass]
  /\ matcher = IdleMatcher

NextRoutes ==
  \/ \E method \in {"GET", "PUT", "DELETE"}, path \in RequestPaths :
       LET route == RouteOf[method, path]
       IN \E u \in Users,
             query \in IF route = 1 THEN Queries ELSE {NoQuery},
             rejected \in IF route \in {1, 2, 3, 5, 6} THEN BOOLEAN ELSE {FALSE} :
            AlertsRequest(u, method, path, query, rejected)
  \/ \E request \in BagToSet(inflight) : ListCountTotal(request)
  \/ \E request \in BagToSet(inflight) : ListCountUnread(request)
  \/ \E request \in BagToSet(inflight) : LookupSave(request)
  \/ \E request \in BagToSet(inflight) : ReadAllUpdate(request)
  \/ \E request \in BagToSet(inflight) : Rejected(request)
  \/ Tick

SpecRoutes == InitRoutes /\ [][NextRoutes]_vars

\* -------------------------------------------------------- the users router

\* The paths of a user document that PUT /device and DELETE /account assign.
AccountPaths(account) ==
  [isActive |-> account.isActive, email |-> account.email,
   deviceInfo |-> account.deviceInfo]

\* user.save() of a document that was loaded: the paths the handler
\* changed are $set, the others keep what the collection holds.  A path
\* in `assigned` was given a new Date() by the handler: its time differs
\* from the loaded one to the millisecond, so it is $set on every save.
SavedAccount(stored, old, new, assigned) ==
  [stored EXCEPT
     !.isActive = IF new.isActive # old.isActive THEN new.isActive ELSE @,
     !.email = IF new.email # old.email THEN new.email ELSE @,
     !.deviceInfo.fcmToken =
        IF new.deviceInfo.fcmToken # old.deviceInfo.fcmToken
          THEN new.deviceInfo.fcmToken ELSE @,
     !.deviceInfo.platform =
        IF new.deviceInfo.platform # old.deviceInfo.platform
          THEN new.deviceInfo.platform ELSE @,
     !.deviceInfo.lastSeen =
        IF "deviceInfo.lastSeen" \in assigned
             \/ new.deviceInfo.lastSeen # old.deviceInfo.lastSeen
          THEN new.deviceInfo.lastSeen ELSE @]

\* The bodies of PUT /preferences: each of notifications, alertRadius (km)
\* and fraudTypes is absent (<<>>) or given; notifications are given with
\* their three flags, fraudTypes as an array of the schema's types.
NoPreferences == [notifications |-> <<>>, alertRadius |-> <<>>, fraudTypes |-> <<>>]
PreferenceBodies ==
  {NoPreferences,
   [NoPreferences EXCEPT !.notifications = <<[email |-> TRUE, sms |-> TRUE, push |-> FALSE]>>],
   [NoPreferences EXCEPT !.notifications = <<[email |-> FALSE, sms |-> FALSE, push |-> TRUE]>>],
   [NoPreferences EXCEPT !.notifications = <<[email |-> TRUE, sms |-> TRUE, push |-> TRUE]>>],
   [NoPreferences EXCEPT !.alertRadius = <<MinAlertRadius>>,
                         !.fraudTypes = <<{"phishing"}>>],
   [NoPreferences EXCEPT !.alertRadius = <<MaxAlertRadius>>, !.fraudTypes = <<{}>>],
   [NoPreferences EXCEPT !.alertRadius = <<0>>],
   [NoPreferences EXCEPT !.alertRadius = <<MaxAlertRadius + 1>>,
                         !.fraudTypes = <<{"ponzi"}>>]}

\* body('alertRadius').optional().isFloat({ min: 1, max: 100 })
ValidPreferences(body) ==
  body.alertRadius # <<>>
    => body.alertRadius[1] >= MinAlertRadius /\ body.alertRadius[1] <= MaxAlertRadius

\* The $set of User.findByIdAndUpdate(req.user._id, updateData): the paths
\* of updateData, one for each part of the body that is given.
Updated(account, body) ==
  [account EXCEPT
     !.preferences.notifications =
        IF body.notifications # <<>> THEN body.notifications[1] ELSE @,
     !.preferences.alertRadius =
        IF body.alertRadius # <<>> THEN Km(body.alertRadius[1]) ELSE @,
     !.preferences.fraudTypes =
        IF body.fraudTypes # <<>> THEN body.fraudTypes[1] ELSE @]

\* PUT /api/users/preferences: 400 of the validation, 500 when the update
\* is rejected, and otherwise the update and the preferences it left.
PutPreferences(userId, body, rejected) ==
  /\ Arrives
  /\ LET status == IF ~ValidPreferences(body) THEN 400
                   ELSE IF rejected THEN 500
                   ELSE 200
     IN /\ accounts' = [accounts EXCEPT ![userId] =
                          IF status = 200 THEN Updated(@, body) ELSE @]
        /\ response' =
             Responded("PUT /preferences", "PUT", <<"preferences">>, userId, status,
                       IF status = 200
                         THEN [preferences |-> Updated(accounts[userId], body).preferences]
                         ELSE NoData)
  /\ UNCHANGED <<content, alerts, passes, matcher>>
  /\ UNCHANGED liveVars
  /\ UNCHANGED <<notifications, auth, geocode, inflight>>

\* The bodies of PUT /device: fcmToken and platform, each absent or given.
NoDevice == [fcmToken |-> Undefined, platform |-> Undefined]
DeviceBodies ==
  {NoDevice,
   [NoDevice EXCEPT !.fcmToken = "token"],
   [NoDevice EXCEPT !.fcmToken = "", !.platform = "web"],
   [NoDevice EXCEPT !.fcmToken = "token", !.platform = "desktop"]}

\* body('platform').optional().isIn(['web', 'android', 'ios'])
ValidDevice(body) ==
  body.platform # Undefined => body.platform \in {"web", "android", "ios"}

\* if (fcmToken) ...; if (platform) ...; user.deviceInfo.lastSeen = new
\* Date(): an empty string is not assigned.
Seen(account, body, now) ==
  [account EXCEPT
     !.deviceInfo.fcmToken =
        IF body.fcmToken \notin {Undefined, ""} THEN body.fcmToken ELSE @,
     !.deviceInfo.platform =
        IF body.platform \notin {Undefined, ""} THEN body.platform ELSE @,
     !.deviceInfo.lastSeen = now]

\* A handler of the users router down to its second wait: the validation
\* passed (400 otherwise), User.findById has resolved (rejected: 500 in
\* the catch), the handler changed the document and calls its save().
Loaded(handler, method, path, userId, valid, changed, assigned, rejected) ==
  /\ BagCardinality(inflight) < MaxPending
  /\ Arrives
  /\ IF valid /\ ~rejected
       THEN /\ inflight' =
                 Enqueued([Waiting(handler, method, path, userId, "save") EXCEPT
                          !.loaded = <<AccountPaths(accounts[userId])>>,
                          !.changed = <<AccountPaths(changed)>>,
                          !.assigned = assigned])
            /\ UNCHANGED response
       ELSE /\ response' = Responded(handler, method, path, userId,
                                     IF valid THEN 500 ELSE 400, NoData)
            /\ UNCHANGED inflight
  /\ UNCHANGED alertVars
  /\ UNCHANGED liveVars
  /\ UNCHANGED <<notifications, auth, geocode>>

\* PUT /api/users/device down to its user.save().
PutDevice(userId, body, rejected) ==
  Loaded("PUT /device", "PUT", <<"device">>, userId, ValidDevice(body),
         Seen(accounts[userId], body, clock), {"deviceInfo.lastSeen"}, rejected)

\* DELETE /api/users/account down to its user.save().
DeleteAccount(userId, confirmDelete, rejected) ==
  Loaded("DELETE /account", "DELETE", <<"account">>, userId, confirmDelete = "DELETE",
         DeactivatedAccount(accounts[userId], clock), {}, rejected)

\* The user.save() of the handler resolved: the changed paths are written,
\* and the response.
AccountSave(request) ==
  /\ Waits(request)
  /\ request.pc = "save"
  /\ request.handler \in {"PUT /device", "DELETE /account"}
  /\ accounts' = [accounts EXCEPT ![request.userId] =
                    SavedAccount(@, request.loaded[1], request.changed[1], request.assigned)]
  /\ response' = Responded(request.handler, request.method, request.path,
                           request.userId, 200, NoData)
  /\ inflight' = Dequeued(request)
  /\ UNCHANGED <<content, alerts, passes, matcher>>
  /\ UNCHANGED <<users, reports, reqs, latest, ops, doc, results>>
  /\ UNCHANGED liveVars
  /\ UNCHANGED <<notifications, auth, geocode>>

\* Accounts of user 1: the schema's defaults, with a device token, and
\* with a device token and the three switches on.
DispatchAccounts ==
  {NewAccount(1),
   [NewAccount(1) EXCEPT !.deviceInfo.fcmToken = "token"],
   [NewAccount(1) EXCEPT !.deviceInfo.fcmToken = "token",
                         !.preferences.notifications =
                            [email |-> TRUE, sms |-> TRUE, push |-> TRUE]]}

\* The users are registered; report 1 of user 2 (ponzi, priority high, at
\* the users' location) is stored and the User.find of its
\* createProximityAlerts call is on its way; two requests to the users
\* router are to come.
InitUsers ==
  /\ NoUi
  /\ users = [u \in Users |->
                IF u = 2 THEN updateTrustScore([NewUser EXCEPT !.reportCount = 1])
                         ELSE NewUser]
  /\ reports = [r \in ReportIds |->
                  IF r = 1 THEN [NoReport EXCEPT !.exists = TRUE, !.reportedBy = 2]
                           ELSE NoReport]
  /\ reqs = [q \in Reqs |-> IdleReq]
  /\ latest = NoVotes
  /\ ops = MaxOps - 2
  /\ doc = NewVerification
  /\ results = <<>>
  /\ \E account \in DispatchAccounts :
       accounts = [u \in Users |-> IF u = 1 THEN account ELSE NewAccount(u)]
  /\ content = [r \in ReportIds |->
                  IF r = 1
                    THEN LET fraudReport ==
                               NewContent("ponzi", [financialLoss |-> 0, affectedUsers |-> 0],
                                          UserLongitude,
                                          [phoneNumber |-> Undefined, email |-> Undefined, website |-> Undefined])
                         IN Analysed(fraudReport,
                                     analyzeFraudReport(fraudReport, PlainText, FALSE))
                    ELSE NoContent]
  /\ alerts = <<>>
  /\ passes = [r \in ReportIds |->
                 IF r = 1 THEN [NoPass EXCEPT !.proximity = "find", !.calls = 1,
                                              !.analysis = "ok", !.emitted = "unheard",
                                              !.status = 201]
                          ELSE NoPass]
  /\ matcher = IdleMatcher
  /\ NoLive

NextUsers ==
  \/ \E u \in Users, body \in PreferenceBodies, rejected \in BOOLEAN :
       PutPreferences(u, body, rejected)
  \/ \E u \in Users, body \in DeviceBodies, rejected \in BOOLEAN :
       PutDevice(u, body, rejected)
  \/ \E u \in Users, confirmDelete \in {"DELETE", "delete"}, rejected \in BOOLEAN :
       DeleteAccount(u, confirmDelete, rejected)
  \/ \E request \in BagToSet(inflight) : AccountSave(request)
  \/ \E request \in BagToSet(inflight) : Rejected(request)
  \/ \E r \in ReportIds : ProximityFind(r)
  \/ \E a \in DOMAIN alerts : AlertSaved(a)
  \/ \E a \in DOMAIN alerts, channel \in Channels, sent \in BOOLEAN :
       SenderSettles(a, channel, sent)
  \/ \E a \in DOMAIN alerts : NotificationsSaved(a)
  \/ Tick

SpecUsers == InitUsers /\ [][NextUsers]_vars

\* ---------------------------------------- the client's notification list

\* `notifications` is the state of SocketProvider: a sequence of
\* [id, type, data, read], the first being the one added last.  `id` is
\* Date.now() at the arrival, read from `clock`; `data` is the payload of
\* the event, which the model numbers by arrival (`ops` counts the events
\* the socket has received).

MaxEvents == 2

\* prev.slice(0, 49) keeps the first 49 elements.
KeepLast == 49

\* Array.prototype.slice(begin, end) for 0 <= begin <= end.
slice(array, begin, end) == SubSeq(array, begin + 1, Min(end, Len(array)))

\* Mutation: the new notification is put before all of prev.
PrependedToAll(prev, notification) == <<notification>> \o prev

\* prev => [notification, ...prev.slice(0, 49)]
Prepended(prev, notification) == <<notification>> \o slice(prev, 0, KeepLast)

\* The notification object a handler builds from an event.
Notification(type) ==
  [id |-> clock, type |-> type, data |-> ops + 1, read |-> FALSE]

\* The user object of the auth state: id, name and the preferences the
\* client reads.
Profile(id, name, fraudTypes) ==
  [id |-> id, name |-> name, preferences |-> [fraudTypes |-> fraudTypes]]

\* The auth state after SET_USER.
LoggedIn(user) ==
  [initialState(<<"jwt">>) EXCEPT !.user = <<user>>, !.loading = FALSE,
                                  !.isAuthenticated = TRUE]

\* user.preferences?.fraudTypes?.includes(reportData.fraudType) ||
\* user.preferences?.fraudTypes?.length === 0
Subscribed(user, fraudType) ==
  \/ fraudType \in user.preferences.fraudTypes
  \/ user.preferences.fraudTypes = {}

\* The handlers of the socket's events exist while the socket does: the
\* effect makes it `if (isAuthenticated && user && !socketRef.current)`
\* and its cleanup disconnects it; an event reaches them while the socket
\* (socket 1 is the one of this client) is connected.
Listening ==
  /\ auth.isAuthenticated
  /\ auth.user # <<>>
  /\ sockets[1].connected

\* on('new_fraud_report'): a notification if the user is subscribed to the
\* fraud type of the report, nothing otherwise.
OnNewFraudReport(fraudType) ==
  /\ Listening
  /\ ops < KeepLast + 1 + MaxEvents
  /\ notifications' = IF Subscribed(auth.user[1], fraudType)
                        THEN Prepended(notifications, Notification("new_report"))
                        ELSE notifications
  /\ ops' = ops + 1
  /\ UNCHANGED <<users, reports, reqs, latest, doc, results>>
  /\ UNCHANGED alertVars
  /\ UNCHANGED liveVars
  /\ UNCHANGED <<response, auth, geocode, inflight>>

\* on('report_verified')
OnReportVerified ==
  /\ Listening
  /\ ops < KeepLast + 1 + MaxEvents
  /\ notifications' = Prepended(notifications, Notification("verification_update"))
  /\ ops' = ops + 1
  /\ UNCHANGED <<users, reports, reqs, latest, doc, results>>
  /\ UNCHANGED alertVars
  /\ UNCHANGED liveVars
  /\ UNCHANGED <<response, auth, geocode, inflight>>

\* on('new_alert')
OnNewAlert ==
  /\ Listening
  /\ ops < KeepLast + 1 + MaxEvents
  /\ notifications' = Prepended(notifications, Notification("alert"))
  /\ ops' = ops + 1
  /\ UNCHANGED <<users, reports, reqs, latest, doc, results>>
  /\ UNCHANGED alertVars
  /\ UNCHANGED liveVars
  /\ UNCHANGED <<response, auth, geocode, inflight>>

\* markNotificationRead(notificationId)
markNotificationRead(notificationId) ==
  /\ notifications' = [i \in DOMAIN notifications |->
                         IF notifications[i].id = notificationId
                           THEN [notifications[i] EXCEPT !.read = TRUE]
                           ELSE notifications[i]]
  /\ UNCHANGED <<users, reports, reqs, latest, ops, doc, results>>
  /\ UNCHANGED alertVars
  /\ UNCHANGED liveVars
  /\ UNCHANGED <<response, auth, geocode, inflight>>

\* markAllNotificationsRead()
markAllNotificationsRead ==
  /\ notifications' = [i \in DOMAIN notifications |->
                         [notifications[i] EXCEPT !.read = TRUE]]
  /\ UNCHANGED <<users, reports, reqs, latest, ops, doc, results>>
  /\ UNCHANGED alertVars
  /\ UNCHANGED liveVars
  /\ UNCHANGED <<response, auth, geocode, inflight>>

\* clearNotifications()
clearNotifications ==
  /\ notifications' = <<>>
  /\ UNCHANGED <<users, reports, reqs, latest, ops, doc, results>>
  /\ UNCHANGED alertVars
  /\ UNCHANGED liveVars
  /\ UNCHANGED <<response, auth, geocode, inflight>>

\* A logged-in user subscribed to phishing reports, whose socket is
\* connected and has received `held` alerts since: the list holds the
\* last KeepLast + 1 of them at most, none read.
InitNotify ==
  /\ users = [u \in Users |-> NewUser]
  /\ reports = [r \in ReportIds |-> NoReport]
  /\ reqs = [q \in Reqs |-> IdleReq]
  /\ latest = NoVotes
  /\ doc = NewVerification
  /\ results = <<>>
  /\ accounts = [u \in Users |-> NewAccount(u)]
  /\ content = [r \in ReportIds |-> NoContent]
  /\ alerts = <<>>
  /\ passes = [r \in ReportIds |-> NoPass]
  /\ matcher = IdleMatcher
  /\ submit = IdleSubmit
  /\ sockets = [NoSockets EXCEPT ![1] = Joined(Connected(@, 1), UserRoom(1))]
  /\ clock = 0
  /\ response = NoResponse
  /\ inflight = EmptyBag
  /\ geocode = IdleGeocoder
  /\ auth = LoggedIn(Profile(1, "name", {"phishing"}))
  /\ \E held \in {KeepLast, KeepLast + 1} :
       /\ ops = held
       /\ notifications = [i \in 1..held |->
                             [id |-> 0, type |-> "alert", data |-> held + 1 - i,
                              read |-> FALSE]]

NextNotify ==
  \/ \E fraudType \in FraudTypes : OnNewFraudReport(fraudType)
  \/ OnReportVerified
  \/ OnNewAlert
  \/ \E notificationId \in 0..MaxClock : markNotificationRead(notificationId)
  \/ markAllNotificationsRead
  \/ clearNotifications
  \/ Tick

SpecNotify == InitNotify /\ [][NextNotify]_vars

\* ------------------------------------------------ the auth state (AuthContext)

\* { ...user, ...payload }: the fields of payload over those of user; the
\* spread of null adds no field.
Spread(user, payload) ==
  IF user = <<>> THEN payload
  ELSE [f \in DOMAIN user[1] \cup DOMAIN payload |->
          IF f \in DOMAIN payload THEN payload[f] ELSE user[1][f]]

\* authReducer(state, action)
authReducer(state, action) ==
  CASE action.type = "SET_LOADING" -> [state EXCEPT !.loading = action.payload]
    [] action.type = "SET_USER" ->
         [state EXCEPT !.user = <<action.payload.user>>,
                       !.token = <<action.payload.token>>,
                       !.isAuthenticated = TRUE,
                       !.loading = FALSE,
                       !.error = <<>>]
    [] action.type = "CLEAR_USER" ->
         [state EXCEPT !.user = <<>>, !.token = <<>>, !.isAuthenticated = FALSE,
                       !.loading = FALSE]
    [] action.type = "UPDATE_USER" ->
         [state EXCEPT !.user = <<Spread(state.user, action.payload)>>]
    [] action.type = "SET_ERROR" ->
         [state EXCEPT !.error = <<action.payload>>, !.loading = FALSE]
    [] action.type = "CLEAR_ERROR" -> [state EXCEPT !.error = <<>>]
    [] OTHER -> state

\* dispatch of several actions in a row.
RECURSIVE Dispatched(_, _)
Dispatched(state, actions) ==
  IF actions = <<>> THEN state
  ELSE Dispatched(authReducer(state, Head(actions)), Tail(actions))

\* A request of the provider, waiting for the server: the function that
\* sent it and the name it carries ("" when it carries none).
Call(fn, name) == [fn |-> fn, name |-> name]

\* The names a profile can have.
ProfileNames == {"ann", "anna"}

\* How a request settles: resolved with response.data.success true or
\* false, or rejected.
Outcomes == {"success", "unsuccessful", "rejected"}

\* Requests of the provider that wait for the server at one time.
MaxRequests == 3

\* The provider's state with the request sent and then the actions
\* dispatched, or with the request answered.
Calling(state, call) == [state EXCEPT !.calls = @ (+) SetToBag({call})]
Returned(state, call) == [state EXCEPT !.calls = @ (-) SetToBag({call})]

\* A function of the provider can send its request.
CanCall == BagCardinality(auth.calls) < MaxRequests

\* The other variables of a step of the provider.  SocketProvider's first
\* effect depends on [isAuthenticated, user], compared by Object.is:
\* `stored` says that the step stored a user object, which is a new one.
\* When they change the cleanup of the effect calls
\* socketRef.current.disconnect() and sets socketRef.current to null, and
\* the effect makes a new socket, not yet connected, if isAuthenticated
\* && user.  The notification list stays: the cleanup has set
\* socketRef.current to null before the "cleanup on logout" effect tests
\* it, so setNotifications([]) is not reached.
AuthStep(stored) ==
  /\ sockets' = IF \/ stored
                   \/ auth'.isAuthenticated # auth.isAuthenticated
                   \/ auth'.user # auth.user
                  THEN [sockets EXCEPT ![1] = NoSockets[1]]
                  ELSE sockets
  /\ UNCHANGED <<users, reports, reqs, latest, ops, doc, results>>
  /\ UNCHANGED alertVars
  /\ UNCHANGED <<submit, clock>>
  /\ UNCHANGED <<response, notifications, geocode, inflight>>

\* newSocket.connect() got through: io.on('connection') on the server, and
\* the client's 'connect' handler emits join_user_room with user.id.
SocketConnects ==
  /\ auth.isAuthenticated
  /\ auth.user # <<>>
  /\ ~sockets[1].connected
  /\ sockets' = [sockets EXCEPT ![1] = Connected(@, auth.user[1].id)]
  /\ UNCHANGED <<users, reports, reqs, latest, ops, doc, results>>
  /\ UNCHANGED alertVars
  /\ UNCHANGED <<submit, clock>>
  /\ UNCHANGED uiVars

\* The server handles the join_user_room the client's 'connect' handler
\* emitted.
ClientJoins ==
  /\ sockets[1].client # 0
  /\ JoinUserRoom(1, sockets[1].client)

\* loadUser's axios.get('/auth/me') settled: SET_USER with the user of the
\* response and the token loadUser read from localStorage, or CLEAR_USER in
\* the catch.
LoadUserSettles(ok, name) ==
  /\ BagIn(Call("loadUser", ""), auth.calls)
  /\ auth' = Returned(
       IF ok THEN authReducer(auth, [type |-> "SET_USER",
                                     payload |-> [user |-> Profile(1, name, {}),
                                                  token |-> "jwt"]])
             ELSE authReducer(auth, [type |-> "CLEAR_USER"]),
       Call("loadUser", ""))
  /\ AuthStep(ok)

\* login(credentials) or register(userData) up to the await: SET_LOADING
\* true, CLEAR_ERROR, and the request is sent.
Login(fn) ==
  /\ CanCall
  /\ auth' = Calling(Dispatched(auth, <<[type |-> "SET_LOADING", payload |-> TRUE],
                                         [type |-> "CLEAR_ERROR"]>>),
                      Call(fn, ""))
  /\ AuthStep(FALSE)

\* The request of login or register settled.  Resolved with success:
\* SET_USER with the user and the token of the response; resolved without
\* success: nothing is dispatched (the `if` has no else) and loading stays
\* true; rejected: SET_ERROR in the catch.
LoginSettles(fn, outcome, name) ==
  /\ BagIn(Call(fn, ""), auth.calls)
  /\ auth' = Returned(
       CASE outcome = "success" ->
              authReducer(auth, [type |-> "SET_USER",
                                 payload |-> [user |-> Profile(1, name, {}),
                                              token |-> "jwt"]])
         [] outcome = "unsuccessful" -> auth
         [] OTHER -> authReducer(auth, [type |-> "SET_ERROR", payload |-> fn]),
       Call(fn, ""))
  /\ AuthStep(outcome = "success")

\* logout() up to await axios.post('/auth/logout'): the request is sent
\* whatever the state is.
Logout ==
  /\ CanCall
  /\ auth' = Calling(auth, Call("logout", ""))
  /\ AuthStep(FALSE)

\* The request of logout settled, resolved or rejected: the finally
\* dispatches CLEAR_USER.
LogoutSettles ==
  /\ BagIn(Call("logout", ""), auth.calls)
  /\ auth' = Returned(authReducer(auth, [type |-> "CLEAR_USER"]), Call("logout", ""))
  /\ AuthStep(FALSE)

\* updateProfile(profileData) up to await axios.put('/auth/profile'): the
\* request is sent whatever the state is.
UpdateProfile(name) ==
  /\ CanCall
  /\ auth' = Calling(auth, Call("updateProfile", name))
  /\ AuthStep(FALSE)

\* The request of updateProfile settled: UPDATE_USER with the user of the
\* response when it resolved with success, nothing otherwise (no else,
\* and the catch dispatches nothing).
UpdateProfileSettles(call, outcome) ==
  /\ BagIn(call, auth.calls)
  /\ call.fn = "updateProfile"
  /\ auth' = Returned(
       IF outcome = "success"
         THEN authReducer(auth, [type |-> "UPDATE_USER",
                                 payload |-> Profile(1, call.name, {})])
         ELSE auth,
       call)
  /\ AuthStep(outcome = "success")

\* forgotPassword(email) up to the await: SET_LOADING true.
ForgotPassword ==
  /\ CanCall
  /\ auth' = Calling(authReducer(auth, [type |-> "SET_LOADING", payload |-> TRUE]),
                      Call("forgotPassword", ""))
  /\ AuthStep(FALSE)

\* The request of forgotPassword settled: the finally dispatches
\* SET_LOADING false.
ForgotPasswordSettles ==
  /\ BagIn(Call("forgotPassword", ""), auth.calls)
  /\ auth' = Returned(authReducer(auth, [type |-> "SET_LOADING", payload |-> FALSE]),
                      Call("forgotPassword", ""))
  /\ AuthStep(FALSE)

\* resetPassword(token, password) up to its await: SET_LOADING true, and
\* the request is sent.
ResetPassword ==
  /\ CanCall
  /\ auth' = Calling(authReducer(auth, [type |-> "SET_LOADING", payload |-> TRUE]),
                      Call("resetPassword", ""))
  /\ AuthStep(FALSE)

\* The request of resetPassword settled, with success or in the catch: the
\* finally dispatches SET_LOADING false.
ResetPasswordSettles ==
  /\ BagIn(Call("resetPassword", ""), auth.calls)
  /\ auth' = Returned(authReducer(auth, [type |-> "SET_LOADING", payload |-> FALSE]),
                      Call("resetPassword", ""))
  /\ AuthStep(FALSE)

\* updateDeviceInfo(deviceInfo) up to its await: the request is sent, and
\* nothing is dispatched.
UpdateDeviceInfo ==
  /\ CanCall
  /\ auth' = Calling(auth, Call("updateDeviceInfo", ""))
  /\ AuthStep(FALSE)

\* The request of updateDeviceInfo settled: a failure is logged in the
\* catch, and nothing is dispatched.
UpdateDeviceInfoSettles ==
  /\ BagIn(Call("updateDeviceInfo", ""), auth.calls)
  /\ auth' = Returned(auth, Call("updateDeviceInfo", ""))
  /\ AuthStep(FALSE)

\* clearError()
clearError ==
  /\ auth' = authReducer(auth, [type |-> "CLEAR_ERROR"])
  /\ AuthStep(FALSE)

\* The provider is mounted and loadUser has run up to its await: with a
\* token in localStorage the request for /auth/me is sent, without one
\* SET_LOADING false was dispatched.  No socket is made yet.
InitAuth ==
  /\ users = [u \in Users |-> NewUser]
  /\ reports = [r \in ReportIds |-> NoReport]
  /\ reqs = [q \in Reqs |-> IdleReq]
  /\ latest = NoVotes
  /\ ops = 0
  /\ doc = NewVerification
  /\ results = <<>>
  /\ NoDispatch
  /\ NoLive
  /\ response = NoResponse
  /\ inflight = EmptyBag
  /\ notifications = <<>>
  /\ geocode = IdleGeocoder
  /\ auth \in {Calling(initialState(<<"jwt">>), Call("loadUser", "")),
               authReducer(initialState(<<>>),
                           [type |-> "SET_LOADING", payload |-> FALSE])}

NextAuth ==
  \/ \E ok \in BOOLEAN, name \in ProfileNames : LoadUserSettles(ok, name)
  \/ \E fn \in {"login", "register"} : Login(fn)
  \/ \E fn \in {"login", "register"}, outcome \in Outcomes, name \in ProfileNames :
       LoginSettles(fn, outcome, name)
  \/ Logout
  \/ LogoutSettles
  \/ \E name \in ProfileNames : UpdateProfile(name)
  \/ \E call \in BagToSet(auth.calls), outcome \in Outcomes :
       UpdateProfileSettles(call, outcome)
  \/ ForgotPassword
  \/ ForgotPasswordSettles
  \/ ResetPassword
  \/ ResetPasswordSettles
  \/ UpdateDeviceInfo
  \/ UpdateDeviceInfoSettles
  \/ clearError
  \/ SocketConnects
  \/ ClientJoins

SpecAuth == InitAuth /\ [][NextAuth]_vars

\* ------------------------------------------------------------- properties

Stored(r) == reports[r].verification

\* The positions of the voter's entries in a report.
EntriesOf(r, u) == {i \in DOMAIN Stored(r).verifiedBy : Stored(r).verifiedBy[i].user = u}

\* The voters whose vote on the report was answered with success.
VotersOf(r) == {u \in Users : latest[r][u].n >= 1}

\* The sum of f over the set S of indices.
RECURSIVE SumOver(_, _)
SumOver(f, S) ==
  IF S = {} THEN 0
  ELSE LET i == CHOOSE j \in S : TRUE IN f[i] + SumOver(f, S \ {i})

\* The weights of the claims, in hundredths: a voter's weight is its
\* trustScore / 100, and a voter with no record or no trust weighs nothing.
ClaimWeights(verification) ==
  [i \in DOMAIN verification.verifiedBy |->
     IF verification.verifiedBy[i].user.found
       THEN verification.verifiedBy[i].user.trustScore ELSE 0]

ClaimConfirm(verification) ==
  {i \in DOMAIN verification.verifiedBy : verification.verifiedBy[i].vote = "confirm"}

ClaimWeightedConfirm(verification) ==
  SumOver(ClaimWeights(verification), ClaimConfirm(verification))

ClaimTotalWeight(verification) ==
  SumOver(ClaimWeights(verification), DOMAIN verification.verifiedBy)

\* score = round(num / den), halves up, said without a division.
IsRounded(score, num, den) ==
  /\ 2 * score * den <= 2 * num + den
  /\ 2 * num + den < 2 * (score + 1) * den

\* C1: under sequential vote applications, a voter whose votes on a report
\* (one, or more than one) have been answered has exactly one verification
\* entry on it, and the entry carries the vote and the comment of the
\* voter's latest vote.
C1_OneEntryLatestVote ==
  \A r \in ReportIds, u \in Users :
    latest[r][u].n >= 1 =>
      /\ Cardinality(EntriesOf(r, u)) = 1
      /\ AllIdle =>
           \A i \in EntriesOf(r, u) :
             /\ Stored(r).verifiedBy[i].vote = latest[r][u].vote
             /\ Stored(r).verifiedBy[i].comment = latest[r][u].comment

\* A voter has voted twice on a report, the second time with another vote
\* and another comment, and both votes are answered.
C1_Witness ==
  \E r \in ReportIds, u \in Users :
    /\ AllIdle
    /\ latest[r][u].n = 2
    /\ latest[r][u].vote # latest[r][u].prevVote
    /\ latest[r][u].comment # latest[r][u].prevComment

\* C2 (as claimed): whatever the interleaving of the verify requests, a
\* stored report holds at most one entry per voter, and its
\* verificationCount never counts more votes than it has voters.
C2_AtMostOneEntryPerVoter ==
  \A r \in ReportIds :
    /\ \A u \in Users : Cardinality(EntriesOf(r, u)) <= 1
    /\ Stored(r).verificationCount
         <= Cardinality({u \in Users : EntriesOf(r, u) # {}})

\* The trust scores a user can have: updateTrustScore of any counters.
TrustRange ==
  {updateTrustScore([NewUser EXCEPT !.reportCount = a, !.verificationCount = b]).trustScore :
     a \in 0..MaxOps, b \in 0..MaxOps}

\* The scores calculateTrustScore gives on all the entries of the stored
\* report, for the voters' trust scores taken at one moment, whichever.
SnapshotScores(r) ==
  {calculateTrustScore(populate(Stored(r), [u \in Users |-> [trustScore |-> t[u]]])).trustScore :
     t \in [Users -> TrustRange]}

\* C3 (as claimed): once concurrent votes by different voters on a report
\* have all completed, every voter's entry is present, verificationCount is
\* the number of entries, and the stored trustScore is one computed from all
\* the entries.
C3_ConsistentSnapshot ==
  \A r \in ReportIds :
    (/\ AllIdle
     /\ reports[r].exists
     /\ VotersOf(r) # {}
     /\ \A u \in Users : Cardinality(EntriesOf(r, u)) <= 1)
    => /\ \A u \in VotersOf(r) : EntriesOf(r, u) # {}
       /\ Stored(r).verificationCount = Len(Stored(r).verifiedBy)
       /\ Stored(r).trustScore \in SnapshotScores(r)

\* C4: under sequential vote applications, verificationCount is the number
\* of entries, and once the votes are answered that is the number of voters
\* who have voted on the report: a first vote adds one to both, a repeat
\* vote adds to neither.
C4_CountIsEntries ==
  \A r \in ReportIds :
    /\ Stored(r).verificationCount = Len(Stored(r).verifiedBy)
    /\ AllIdle => Len(Stored(r).verifiedBy) = Cardinality(VotersOf(r))

\* A report with two voters, one of whom has voted twice, every vote
\* answered.
C4_Witness ==
  \E r \in ReportIds :
    /\ AllIdle
    /\ Stored(r).verificationCount = 2
    /\ \E u \in Users : latest[r][u].n = 2

\* C5 (as claimed): with every request answered, the stored trustScore of
\* every report is the one calculateTrustScore gives from its entries and
\* the voters' current trustScore.
C5_ScoreNeverStale ==
  \A r \in ReportIds :
    (Quiescent /\ reports[r].exists) =>
      Stored(r).trustScore = calculateTrustScore(populate(Stored(r), users)).trustScore

\* C6 (as claimed): a report with no verification has trustScore 30, once
\* its submission is answered.
C6_UnverifiedScores30 ==
  \A r \in ReportIds :
    (Quiescent /\ reports[r].exists /\ Len(Stored(r).verifiedBy) = 0)
      => Stored(r).trustScore = 30

\* C7 (as claimed): with at least one verification and a total weight above
\* 0, the score is round(100 * weightedConfirm / totalWeight); confirm, deny
\* and uncertain votes all count in totalWeight, confirm votes alone in
\* weightedConfirm.
C7_WeightedRound ==
  (/\ results # <<>>
   /\ doc.verificationCount > 0
   /\ ClaimTotalWeight(doc) > 0)
  => IsRounded(doc.trustScore, 100 * ClaimWeightedConfirm(doc), ClaimTotalWeight(doc))

C9_IdempotentInRange ==
  \A i \in DOMAIN results :
    /\ results[i] = results[1]
    /\ results[i][1] \in 0..100
    /\ results[i] = <<doc.trustScore, doc.status>>

\* calculateTrustScore was called twice on a report with weighted votes on
\* both sides.
C9_Witness ==
  /\ Len(results) = 2
  /\ ClaimWeightedConfirm(doc) > 0
  /\ ClaimWeightedConfirm(doc) < ClaimTotalWeight(doc)

\* C10 (as claimed): once a vote has been applied to a report, its stored
\* status is 'verified' for a trustScore >= 80, 'disputed' for a trustScore
\* <= 20, 'pending' otherwise.
C10_StatusFromScore ==
  \A r \in ReportIds :
    Stored(r).verificationCount > 0 =>
      /\ Stored(r).trustScore >= 80 => Stored(r).status = "verified"
      /\ Stored(r).trustScore <= 20 => Stored(r).status = "disputed"
      /\ (Stored(r).trustScore > 20 /\ Stored(r).trustScore < 80)
           => Stored(r).status = "pending"

\* ------------------------------------------------- properties of the alerts

\* The Alert documents the collection holds.
StoredAlerts == {a \in DOMAIN alerts : alerts[a].pc \notin {"saving", "rejected"}}

\* The stored alerts of a recipient on a report, of one type.
AlertsOf(u, r, alertType) ==
  {a \in StoredAlerts :
     /\ alerts[a].user = u
     /\ alerts[a].fraudReport = r
     /\ alerts[a].alertType = alertType}

AlertTypes == {"proximity", "phone_match", "email_match"}

\* The createProximityAlerts call the handler made for the report has run
\* all its callbacks to their end.
DispatchDone(r) ==
  /\ passes[r].proximity = "mapped"
  /\ \A a \in DOMAIN alerts : alerts[a].fraudReport = r => alerts[a].pc = "idle"

\* C11 (as claimed): no two Alert records share recipient, source report
\* and alertType, however often alert creation is repeated for a report.
C11_NoDuplicateAlert ==
  \A u \in Users, r \in ReportIds, alertType \in AlertTypes :
    Cardinality(AlertsOf(u, r, alertType)) <= 1

\* C12 (as claimed): once the dispatch of a submitted report is done, every
\* active user whose registered phone is the report's evidence phone has
\* exactly one phone_match alert on it, of severity critical.
C12_PhoneMatchOnSubmit ==
  \A r \in ReportIds, u \in Users :
    (/\ DispatchDone(r)
     /\ accounts[u].isActive
     /\ content[r].evidenceData.phoneNumber # Undefined
     /\ accounts[u].phone = content[r].evidenceData.phoneNumber)
    => /\ Cardinality(AlertsOf(u, r, "phone_match")) = 1
       /\ \A a \in AlertsOf(u, r, "phone_match") : alerts[a].severity = "critical"

\* C13 (as claimed): once a createMatchAlerts call on a report has returned,
\* each active user has one phone_match alert on the report if the report's
\* evidence phone is present and is the user's phone and none otherwise,
\* and likewise and independently one email_match alert or none; each is of
\* severity critical, and a user who is not active has none.
C13_IdentifierMatches ==
  (matcher.pc = "idle" /\ matcher.fraudReport # 0) =>
    \A u \in Users :
      LET r == matcher.fraudReport
          evidenceData == content[r].evidenceData
          phoneMatch == /\ accounts[u].isActive
                        /\ evidenceData.phoneNumber # Undefined
                        /\ accounts[u].phone = evidenceData.phoneNumber
          emailMatch == /\ accounts[u].isActive
                        /\ evidenceData.email # Undefined
                        /\ accounts[u].email = evidenceData.email
      IN /\ Cardinality(AlertsOf(u, r, "phone_match")) = IF phoneMatch THEN 1 ELSE 0
         /\ Cardinality(AlertsOf(u, r, "email_match")) = IF emailMatch THEN 1 ELSE 0
         /\ \A a \in AlertsOf(u, r, "phone_match") \cup AlertsOf(u, r, "email_match") :
              alerts[a].severity = "critical"

\* A user who is active, has push notifications on, is not the reporter and
\* whose fraud types are none or hold the report's.
OtherwiseQualifies(u, r) ==
  /\ accounts[u].isActive
  /\ accounts[u].preferences.notifications.push
  /\ u # reports[r].reportedBy
  /\ \/ accounts[u].preferences.fraudTypes = {}
     \/ content[r].fraudType \in accounts[u].preferences.fraudTypes

\* The proximity alerts created for a user on a report, stored or on their
\* way to the collection.
ProximityAlertsOf(u, r) ==
  {a \in DOMAIN alerts :
     /\ alerts[a].user = u
     /\ alerts[a].fraudReport = r
     /\ alerts[a].alertType = "proximity"}

\* C14 (as claimed): once the dispatch of a report has looked at the users,
\* an otherwise qualifying user has a proximity alert exactly when the
\* distance to the report is at most the user's own alertRadius.
C14_RecipientRadiusDecides ==
  \A r \in ReportIds, u \in Users :
    (passes[r].proximity = "mapped" /\ OtherwiseQualifies(u, r))
    => (ProximityAlertsOf(u, r) # {}
          <=> Distance(u, r) <= accounts[u].preferences.alertRadius)

\* C15: no proximity alert has the reporter of its report as recipient.
C15_NoAlertForReporter ==
  \A a \in DOMAIN alerts :
    alerts[a].alertType = "proximity"
      => alerts[a].user # reports[alerts[a].fraudReport].reportedBy

\* The dispatch of a report has created a proximity alert for another user,
\* and none for the reporter, who is active, has push notifications on, is
\* within the own radius of the report and takes every fraud type.
C15_Witness ==
  \E r \in ReportIds :
    /\ DispatchDone(r)
    /\ \E u \in Users : AlertsOf(u, r, "proximity") # {}
    /\ LET reporter == reports[r].reportedBy
       IN /\ accounts[reporter].isActive
          /\ accounts[reporter].preferences.notifications.push
          /\ accounts[reporter].preferences.fraudTypes = {}
          /\ Distance(reporter, r) <= accounts[reporter].preferences.alertRadius
          /\ Distance(reporter, r) <= Km(ProximityRadius)

\* C16: the recipient of a proximity alert has no fraud types listed, or
\* lists the fraud type of the report.
C16_OnlySubscribedTypes ==
  \A a \in DOMAIN alerts :
    alerts[a].alertType = "proximity"
      => \/ accounts[alerts[a].user].preferences.fraudTypes = {}
         \/ content[alerts[a].fraudReport].fraudType
              \in accounts[alerts[a].user].preferences.fraudTypes

\* The dispatch of a report is done and has created no alert for a user
\* whose list lacks the report's fraud type and who is active, has push
\* notifications on, is not the reporter and is within the own radius and
\* the 10 km of the report.
C16_Witness ==
  \E r \in ReportIds, u \in Users :
    /\ DispatchDone(r)
    /\ accounts[u].isActive
    /\ accounts[u].preferences.notifications.push
    /\ u # reports[r].reportedBy
    /\ Distance(u, r) <= accounts[u].preferences.alertRadius
    /\ Distance(u, r) <= Km(ProximityRadius)
    /\ accounts[u].preferences.fraudTypes # {}
    /\ content[r].fraudType \notin accounts[u].preferences.fraudTypes
    /\ ProximityAlertsOf(u, r) = {}

\* The channels the claims call eligible for an alert, given the channel
\* state the call started from.
ClaimEligible(a) ==
  {c \in Channels :
     /\ accounts[alerts[a].user].preferences.notifications[c]
     /\ ~alerts[a].log.before[c].sent
     /\ ~(c = "sms" /\ alerts[a].severity = "low")}

\* A sendAlertNotifications call on the alert has returned.
PassDone(a) == alerts[a].pc = "idle" /\ alerts[a].log.calls >= 1

\* C17: shouldSendViaChannel answers true for a channel exactly when the
\* recipient has the channel on, the alert's state for it is not sent, and
\* it is not SMS for an alert of severity low.
C17_ChannelEligibility ==
  \A a \in DOMAIN alerts :
    alerts[a].log.calls >= 1 => alerts[a].log.eligible = ClaimEligible(a)

\* A call on an alert of severity low whose recipient has SMS and email on,
\* neither sent: email is eligible, SMS is not.
C17_Witness ==
  \E a \in DOMAIN alerts :
    /\ alerts[a].log.calls >= 1
    /\ alerts[a].severity = "low"
    /\ accounts[alerts[a].user].preferences.notifications.sms
    /\ ~alerts[a].log.before["sms"].sent
    /\ "sms" \notin alerts[a].log.eligible
    /\ "email" \in alerts[a].log.eligible

\* C18 (as claimed): when a sendAlertNotifications call has returned, the
\* sender of every channel that was eligible has been invoked.
C18_EligibleAttempted ==
  \A a \in DOMAIN alerts :
    PassDone(a) => ClaimEligible(a) \subseteq alerts[a].log.invoked

\* C19 (as claimed): over the calls made on an alert one after the other,
\* no channel is sent with success more than once, and no sender is invoked
\* for a channel stored as sent.
C19_SentAtMostOnce ==
  \A a \in DOMAIN alerts :
    /\ \A c \in Channels : alerts[a].log.successes[c] <= 1
    /\ ~alerts[a].log.resent

\* C20 (as claimed): a sender that returned true leaves its channel sent,
\* with sentAt, in the document and, once the call has returned, in the
\* collection; a sender that returned false leaves the channel as the call
\* found it, not sent and eligible as before.
C20_SendOutcomeRecorded ==
  \A a \in DOMAIN alerts, c \in Channels :
    /\ alerts[a].log.outcome[c] = "ok" =>
         /\ alerts[a].channels[c] = SentNow
         /\ PassDone(a) => alerts[a].saved[c] = SentNow
    /\ alerts[a].log.outcome[c] = "failed" =>
         /\ alerts[a].channels[c] = alerts[a].log.before[c]
         /\ ~alerts[a].channels[c].sent
         /\ PassDone(a) =>
              /\ alerts[a].saved[c] = alerts[a].log.before[c]
              /\ accounts[alerts[a].user].preferences.notifications[c]
              /\ ~(c = "sms" /\ alerts[a].severity = "low")

\* ---------------------------------------------------- the users' trust

\* The trust score and the tier as the claims state them.
ClaimTrustScore(reportCount, verificationCount) ==
  Min(50 + Min(reportCount * 2, 30) + Min(verificationCount * 3, 40), 100)

ClaimTier(trustScore) ==
  CASE trustScore >= 90 -> "expert"
    [] trustScore >= 75 /\ trustScore < 90 -> "verified"
    [] trustScore >= 60 /\ trustScore < 75 -> "trusted"
    [] OTHER -> "new"

\* C29 (as claimed): after any report submissions and votes have completed,
\* every user's stored trustScore is the formula's value for the stored
\* reportCount and verificationCount, and the stored reputation is the tier
\* of the stored score.
C29_TrustScoreFromCounters ==
  Quiescent =>
    \A u \in Users :
      /\ users[u].trustScore
           = ClaimTrustScore(users[u].reportCount, users[u].verificationCount)
      /\ users[u].reputation = ClaimTier(users[u].trustScore)

\* C30 (as claimed): no step of a report submission or of a vote lowers a
\* user's stored trustScore, and the stored score never exceeds 100.
C30_TrustNeverDecreases ==
  [][\A u \in Users :
       /\ users'[u].trustScore >= users[u].trustScore
       /\ users'[u].trustScore <= 100]_vars

\* ------------------------------------------------- the frame of an alert

\* C21: no step (dispatch, mark read, mark all read, delete, the passing of
\* time) changes the recipient, the report, the alertType, the severity, the
\* title, the message, the matchCriteria or the expiresAt of an alert that
\* exists; expiresAt stays 7 days after the creation whatever the read
\* state; a stored sent flag that is true stays true.
C21_AlertFrame ==
  [][\A a \in DOMAIN alerts :
       /\ a \in DOMAIN alerts'
       /\ alerts'[a].user = alerts[a].user
       /\ alerts'[a].fraudReport = alerts[a].fraudReport
       /\ alerts'[a].alertType = alerts[a].alertType
       /\ alerts'[a].severity = alerts[a].severity
       /\ alerts'[a].title = alerts[a].title
       /\ alerts'[a].message = alerts[a].message
       /\ alerts'[a].matchCriteria = alerts[a].matchCriteria
       /\ alerts'[a].expiresAt = alerts[a].expiresAt
       /\ alerts'[a].expiresAt = alerts'[a].createdAt + 7
       /\ \A c \in Channels :
            /\ alerts[a].saved[c].sent => alerts'[a].saved[c].sent
            /\ alerts[a].channels[c].sent /\ alerts[a].pc = "sending"
                 => alerts'[a].channels[c].sent]_vars

\* An alert created on an earlier day was dispatched with a channel stored
\* as sent, then read on a later day and deleted.
C21_Witness ==
  \E a \in StoredAlerts :
    /\ alerts[a].isRead
    /\ alerts[a].readAt = <<clock>>
    /\ ~alerts[a].isActive
    /\ alerts[a].createdAt < clock
    /\ alerts[a].pc = "idle"
    /\ \E c \in Channels : alerts[a].saved[c].sent

\* ------------------------------------------------ failures and the dispatch

\* The channels a call attempts for an alert: the eligible ones the
\* recipient can be reached on (a device token for push; a phone, and a
\* severity of high or critical, for SMS).
ClaimAttempts(a) ==
  {c \in ClaimEligible(a) :
     /\ (c = "push" => accounts[alerts[a].user].deviceInfo.fcmToken # Undefined)
     /\ (c = "sms" => /\ accounts[alerts[a].user].phone # Undefined
                      /\ alerts[a].severity \in {"high", "critical"})}

\* The call on the alert has returned with every channel it attempts heard
\* and every successful send stored.
AttemptedAndRecorded(a) ==
  /\ PassDone(a)
  /\ \A c \in ClaimAttempts(a) :
       /\ alerts[a].log.outcome[c] \in {"ok", "failed"}
       /\ alerts[a].log.outcome[c] = "ok" => alerts[a].saved[c].sent

\* C22: when the dispatch of a report is done and a send of one of its
\* alerts failed, the other channels of that alert were attempted and their
\* successes stored, every recipient of the report has an alert, and the
\* channels of every other alert were attempted and recorded too.
C22_FailureIsolated ==
  \A a \in DOMAIN alerts :
    (/\ DispatchDone(alerts[a].fraudReport)
     /\ \E c \in Channels : alerts[a].log.outcome[c] = "failed")
    => /\ AttemptedAndRecorded(a)
       /\ \A u \in ProximityRecipients(alerts[a].fraudReport) :
            ProximityAlertsOf(u, alerts[a].fraudReport) # {}
       /\ \A b \in DOMAIN alerts :
            alerts[b].fraudReport = alerts[a].fraudReport => AttemptedAndRecorded(b)

\* The push of one alert failed and its email went out and is stored;
\* another recipient of the report got its alert by push.
C22_Witness ==
  \E a, b \in StoredAlerts :
    /\ alerts[a].user # alerts[b].user
    /\ alerts[a].fraudReport = alerts[b].fraudReport
    /\ DispatchDone(alerts[a].fraudReport)
    /\ alerts[a].log.outcome["push"] = "failed"
    /\ alerts[a].log.outcome["email"] = "ok"
    /\ alerts[a].saved["email"].sent
    /\ ~alerts[a].saved["push"].sent
    /\ alerts[b].log.outcome["push"] = "ok"
    /\ alerts[b].saved["push"].sent

\* The user is a candidate of the identifier matcher for the report: active,
\* and registered with the phone (the email) the report's evidence names.
IdentifierCandidate(u, r, alertType) ==
  /\ accounts[u].isActive
  /\ IF alertType = "phone_match"
       THEN /\ content[r].evidenceData.phoneNumber # Undefined
            /\ accounts[u].phone = content[r].evidenceData.phoneNumber
       ELSE /\ content[r].evidenceData.email # Undefined
            /\ accounts[u].email = content[r].evidenceData.email

ClaimAlertsFor(r) == {a \in DOMAIN alerts : alerts[a].fraudReport = r}

\* The handler of the report is at its classifier call or at the save of
\* the analysis.
ClaimEnriching(r) ==
  submit.fraudReport = r /\ submit.pc \in {"save", "analyse", "saveAnalysis"}

\* C24: for a new report the enrichment has ended (the analysis is assigned
\* and saved) before the recipients are looked up, the recipients are
\* mapped before an alert exists, an alert is inserted before any sender is
\* invoked for it, and what the collection holds of the channels changes
\* only once every invoked sender has settled.
C24_StagesInOrder ==
  /\ \A r \in ReportIds :
       /\ passes[r].proximity # "none"
            => /\ passes[r].analysis # "none"
               /\ ~ClaimEnriching(r)
               /\ reports[r].exists
       /\ ClaimAlertsFor(r) # {} => passes[r].proximity = "mapped"
  /\ \A a \in DOMAIN alerts :
       /\ alerts[a].pc \in {"saving", "rejected"}
            => /\ alerts[a].log.calls = 0
               /\ alerts[a].log.invoked = {}
               /\ \A c \in Channels : ~alerts[a].channels[c].sent
       /\ alerts[a].pc = "sending"
            => /\ alerts[a].saved = alerts[a].log.before
               /\ \A c \in Channels :
                    alerts[a].log.outcome[c] # "none" => c \notin alerts[a].pending

\* A report went through the five stages: its alert was sent on a channel
\* and the collection holds the result.
C24_Witness ==
  \E a \in DOMAIN alerts :
    /\ DispatchDone(alerts[a].fraudReport)
    /\ passes[alerts[a].fraudReport].analysis = "ok"
    /\ \E c \in Channels : alerts[a].log.outcome[c] = "ok" /\ alerts[a].saved[c].sent

\* The dispatch of the report met a data-layer failure: the recipient
\* lookup rejected, the insert of an alert rejected, or the save that ends
\* sendAlertNotifications rejected after a send had succeeded.
ClaimDispatchFailed(r) ==
  \/ passes[r].proximity = "failed"
  \/ \E a \in ClaimAlertsFor(r) :
       \/ alerts[a].pc = "rejected"
       \/ alerts[a].pc = "idle" /\ alerts[a].saved # alerts[a].channels

\* C25: when the recipient lookup or the alerting of a report fails in the
\* data layer, the report is in the collection with its analysis, the
\* reporter's statistics are updated, and the submission was answered 201.
C25_DispatchFailureLeavesReport ==
  \A r \in ReportIds :
    ClaimDispatchFailed(r)
    => /\ reports[r].exists
       /\ passes[r].analysis # "none"
       /\ passes[r].status = 201
       /\ users[reports[r].reportedBy].reportCount = 1

\* The recipient lookup of a submitted report failed.
C25_Witness ==
  \E r \in ReportIds :
    /\ passes[r].proximity = "failed"
    /\ reports[r].exists
    /\ passes[r].status = 201

\* C26 (as claimed): when the classifier fails during a submission, the
\* report is in the collection, the analysis it is given is riskScore 30
\* with no keywords, that analysis is what the collection holds once the
\* handler is past its save, and the handler answers 201.
C26_ClassifierFailureDefaults ==
  \A r \in ReportIds :
    passes[r].analysis = "defaults"
    => /\ reports[r].exists
       /\ submit.fraudReport = r /\ submit.pc = "saveAnalysis"
            => submit.document.aiAnalysis = [riskScore |-> 30, keywords |-> {}]
       /\ ~ClaimEnriching(r)
            => content[r].aiAnalysis = [riskScore |-> 30, keywords |-> {}]
       /\ submit.pc = "idle" => passes[r].status = 201

\* C27: a lost new_fraud_report emission leaves the submission answered 201
\* with its dispatch started, and every recipient gets an alert; a lost
\* new_alert emission leaves the call on the alert going: every channel the
\* code attempts for the alert is invoked, and heard when the call is over.
C27_LostEmissionNoFailure ==
  /\ \A r \in ReportIds :
       passes[r].emitted = "lost"
       => /\ passes[r].proximity \in {"find", "mapped"}
          /\ passes[r].status = 201
          /\ passes[r].proximity = "mapped"
               => \A u \in ProximityRecipients(r) : \E a \in ClaimAlertsFor(r) : alerts[a].user = u
  /\ \A a \in DOMAIN alerts :
       alerts[a].log.emitted = "lost"
       => /\ alerts[a].pc \in {"sending", "idle"}
          /\ alerts[a].log.invoked = ClaimAttempts(a)
          /\ alerts[a].pc = "idle"
               => \A c \in ClaimAttempts(a) : alerts[a].log.outcome[c] \in {"ok", "failed"}

\* Both emissions of a report were lost, and the alert went out by push.
C27_Witness ==
  \E a \in DOMAIN alerts :
    /\ passes[alerts[a].fraudReport].emitted = "lost"
    /\ alerts[a].log.emitted = "lost"
    /\ alerts[a].pc = "idle"
    /\ alerts[a].log.outcome["push"] = "ok"
    /\ alerts[a].saved["push"].sent

\* C28 (as claimed): a socket receives the new_alert event of an alert only
\* if its client is signed in as the alert's recipient.
C28_NewAlertOnlyToRecipient ==
  \A s \in Sockets, a \in DOMAIN alerts :
    NewAlertEvent(a) \in sockets[s].received => sockets[s].client = alerts[a].user

\* C31 (as claimed): a reverseGeocode call never ends rejected, and when
\* the geocoding service failed or had no result it ends with the address
\* made of the coordinates.
C31_GeocoderNeverRejects ==
  geocode.pc = "done"
  => /\ geocode.settled = "resolved"
     /\ geocode.failure # "none"
          => geocode.address = CoordinateString(geocode.lat, geocode.lng)

\* The alert a response by id is about (0: none).
ClaimAlertOf(resp) ==
  IF resp.handler \in {"GET /:id", "PUT /:id/read", "DELETE /:id"}
       /\ CastId(resp.path[1]) \in DOMAIN alerts
    THEN CastId(resp.path[1])
    ELSE 0

\* C32 (as claimed): an alert's isRead, readAt and isActive change only in
\* a request of its recipient; a get, mark-read or delete by id of a user
\* who is not the alert's recipient is answered 404 with no alert in the
\* body and changes no alert; the list of a user holds that user's alerts
\* only.
C32_OnlyRecipient ==
  [][/\ \A a \in DOMAIN alerts :
          (\/ alerts'[a].isRead # alerts[a].isRead
           \/ alerts'[a].readAt # alerts[a].readAt
           \/ alerts'[a].isActive # alerts[a].isActive)
          => /\ response'.userId = alerts[a].user
             /\ response'.status = 200
     /\ (/\ response' # response
         /\ ClaimAlertOf(response') # 0
         /\ alerts[ClaimAlertOf(response')].user # response'.userId)
        => /\ response'.status = 404
           /\ response'.data = NoData
           /\ alerts' = alerts
     /\ response' # response
        => \A a \in response'.data.alerts : alerts[a].user = response'.userId]_vars

\* C32 (amended): an alert's isRead, readAt and isActive change only in a
\* request of its recipient; a get, mark-read or delete by id of a user who
\* is not the alert's recipient is answered 404, or 500 when the lookup of
\* the alert is rejected, in both cases with no alert in the body and with
\* no alert changed; the list of a user holds that user's alerts only.
C32_OnlyRecipientOrError ==
  [][/\ \A a \in DOMAIN alerts :
          (\/ alerts'[a].isRead # alerts[a].isRead
           \/ alerts'[a].readAt # alerts[a].readAt
           \/ alerts'[a].isActive # alerts[a].isActive)
          => /\ response'.userId = alerts[a].user
             /\ response'.status = 200
     /\ (/\ response' # response
         /\ ClaimAlertOf(response') # 0
         /\ alerts[ClaimAlertOf(response')].user # response'.userId)
        => /\ response'.status \in {404, 500}
           /\ response'.data = NoData
           /\ alerts' = alerts
     /\ response' # response
        => \A a \in response'.data.alerts : alerts[a].user = response'.userId]_vars

\* A user's delete of another user's alert was answered 404 and the alert
\* is active, while that user's own alert is read.
C32_Witness ==
  /\ response.handler = "DELETE /:id"
  /\ response.status = 404
  /\ ClaimAlertOf(response) # 0
  /\ alerts[ClaimAlertOf(response)].user # response.userId
  /\ alerts[ClaimAlertOf(response)].isActive
  /\ \E b \in DOMAIN alerts : alerts[b].user = response.userId /\ alerts[b].isRead

\* The alert statistics of a user, as the aggregation of GET /stats gives
\* them.
ClaimStats(userId) ==
  LET found == {a \in StoredAlerts : alerts[a].user = userId /\ alerts[a].isActive}
  IN [total |-> Cardinality(found),
      unread |-> Cardinality({a \in found : ~alerts[a].isRead})]

\* C34 (as claimed): a GET request for /api/alerts/stats is answered by the
\* statistics handler, with the total and the unread count of the
\* requesting user's alerts.
C34_StatsRouteReached ==
  (response.method = "GET" /\ response.path = <<"stats">>)
  => /\ response.handler = "GET /stats"
     /\ response.status = 200
     /\ response.data.total = ClaimStats(response.userId).total
     /\ response.data.unread = ClaimStats(response.userId).unread

\* C33: the classifier's riskScore for a report always lies in 0..100:
\* what analyzeFraudReport returned to the submission, and what the
\* collection holds of it, after every combination of text indicators,
\* sentiment, urgency words, website, phone number and priority, and after
\* the catch of the classifier.
C33_RiskScoreInRange ==
  /\ submit.aiAnalysis.riskScore \in 0..100
  /\ submit.document.aiAnalysis.riskScore \in 0..100
  /\ \A r \in ReportIds : content[r].aiAnalysis.riskScore \in 0..100

\* A stored analysis whose adjustments went through the cap: a critical
\* report with a phishing website and a scam number, at 100.
C33_Witness ==
  \E r \in ReportIds :
    /\ passes[r].analysis = "ok"
    /\ content[r].priority = "critical"
    /\ content[r].evidenceData.website \in PhishingWebsites
    /\ content[r].evidenceData.phoneNumber \in ScamNumbers
    /\ content[r].aiAnalysis.riskScore = 100


\* A handler of new_fraud_report, report_verified or new_alert has added a
\* notification in this step.
ClaimAdded ==
  /\ ops' = ops + 1
  /\ notifications' # notifications

\* C35: the notification list keeps the last 50 notifications.  It never
\* holds more than 50 entries; the entries are in the order of arrival, the
\* newest first; a step that adds a notification puts it first, before the
\* entries held, and when 50 were held the oldest of them is gone and the
\* other 49 stay in their order.
C35_LastFiftyNewestFirst ==
  /\ [](/\ Len(notifications) <= KeepLast + 1
        /\ \A i, j \in DOMAIN notifications :
             i < j => notifications[i].data > notifications[j].data)
  /\ [][ClaimAdded =>
         /\ notifications'[1].data = ops'
         /\ notifications'[1].id = clock
         /\ ~notifications'[1].read
         /\ IF Len(notifications) = KeepLast + 1
              THEN /\ Len(notifications') = KeepLast + 1
                   /\ Tail(notifications') = SubSeq(notifications, 1, KeepLast)
              ELSE Tail(notifications') = notifications]_vars

\* Fifty notifications were held, a further event arrived and its
\* notification is first of fifty.
C35_Witness ==
  /\ Len(notifications) = KeepLast + 1
  /\ ops > KeepLast + 1
  /\ notifications[1].data = ops
  /\ notifications[1].type = "new_report"
  /\ notifications[KeepLast + 1].data = ops - KeepLast


\* C36: a socket whose client has called leaveLocationRoom for a room it
\* had joined receives no further new_fraud_report emitted to that room.
C36_LeftRoomIsSilent ==
  [][\A s \in Sockets, r \in ReportIds :
       (/\ reports[r].exists
        /\ LocationRoom(0, content[r].location) \in sockets[s].left
        /\ NewFraudReport(r) \notin sockets[s].received)
       => NewFraudReport(r) \notin sockets'[s].received]_vars


\* The reports that hold a verification entry of the user.
ClaimVerifiedBy(u) == {r \in ReportIds : EntriesOf(r, u) # {}}

\* C37 (as claimed): after any votes have completed, each user's
\* verificationCount is the number of distinct reports that hold a
\* verification entry of that user.
C37_CountIsReportsVerified ==
  Quiescent =>
    \A u \in Users : users[u].verificationCount = Cardinality(ClaimVerifiedBy(u))


\* C38 (as claimed): once the submission has stored a report, the dispatch
\* pass of that report is eventually started, whatever becomes of the later
\* steps of the submission.
C38_StoredReportIsDispatched ==
  \A r \in ReportIds : reports[r].exists ~> passes[r].proximity # "none"


\* C39: the first vote on a report alone decides its status.  After
\* calculateTrustScore on a report with a single verification entry: a
\* confirm of a voter with a record and a non-zero trust gives trustScore
\* 100 and status verified; a deny or an uncertain gives trustScore 0 and
\* status disputed, whatever the voter's trust and with or without a record.
C39_FirstVoteDecides ==
  (/\ results # <<>>
   /\ Len(doc.verifiedBy) = 1
   /\ doc.verificationCount = 1)
  => LET entry == doc.verifiedBy[1]
     IN /\ (entry.vote = "confirm" /\ entry.user.found /\ entry.user.trustScore > 0)
             => (doc.trustScore = 100 /\ doc.status = "verified")
        /\ entry.vote \in {"deny", "uncertain"}
             => (doc.trustScore = 0 /\ doc.status = "disputed")

\* The score of a report whose single vote is an uncertain of a voter of
\* trust 40 was calculated.
C39_Witness ==
  /\ results # <<>>
  /\ Len(doc.verifiedBy) = 1
  /\ doc.verifiedBy[1].vote = "uncertain"
  /\ doc.verifiedBy[1].user.found
  /\ doc.verifiedBy[1].user.trustScore = 40
  /\ doc.trustScore = 0
  /\ doc.status = "disputed"


\* C40 (as claimed): in every state the auth reducer's actions lead to,
\* user is non-null exactly when isAuthenticated is true.
C40_UserIffAuthenticated ==
  (auth.user # <<>>) <=> auth.isAuthenticated

====
